---- MODULE Spec2Model ----
(***************************************************************************)
(* Model of the funding-rate settlement capture system:                    *)
(*   main.py    - settlement predicate and the scheduler poll loop         *)
(*   streams.py - funding-rate tracker, interval cache, capture session    *)
(*   utils.py   - queue-backed capture logger                              *)
(*   short_order.py - the precision order loop                             *)
(*   analyze_latency.py - the offline analysis of a capture log            *)
(*                                                                         *)
(* The specifications of the module:                                       *)
(*   SpecPred    - the pure predicate _is_pre_settlement on drawn inputs   *)
(*   SpecLog     - one capture session with its logger, queue and worker   *)
(*   SpecLogLive - the same under fair scheduling                          *)
(*   Spec        - tracker, interval-fetch workers and the scheduler       *)
(*   SpecTiming  - the same over a longer window, one symbol               *)
(*   SpecTrack   - the tracker and its fetch workers alone                 *)
(*   SpecOrder   - the precision order loop                                *)
(*   SpecAnalyze - analyze_latency.py on one capture log                   *)
(*                                                                         *)
(* Optional values (Python's None) are sets: {} is None, {v} is v.         *)
(***************************************************************************)
EXTENDS Integers, Sequences, FiniteSets, Bags, TLC

VARIABLES
  \* ---- SpecPred: inputs and result of _is_pre_settlement
  p_now, p_interval, p_pc, p_result,
  \* ---- SpecLog: one run_logging_session and its logger
  l_clock,      \* wall clock, microseconds
  l_base,       \* start of the window in which the clock moves in fine steps
  l_pc,         \* position of the run_logging_session coroutine
  l_deadline,   \* wall-clock instant at which asyncio.sleep(duration) is due
  l_book,       \* book_ticker: "none" | "subscribed" | "unsubscribed"
  l_thread,     \* QueueListener worker thread: "none" | "running" | "exited"
  l_queue,      \* log_queue (queue.SimpleQueue)
  l_file,       \* lines persisted by the file handler, in write order
  l_passed,     \* history: records handed to the logger, in call order
  l_nmsg,       \* number of stream messages received so far
  l_stopmark,   \* history: Len(l_passed) when listener.stop() was called
  l_events,     \* history: what happened on the way (the exit path)
  l_exc,        \* exception the coroutine returned with ({} is none)
  l_popen,      \* number of analysis subprocesses launched
  \* ---- Spec: tracker (streams.py globals), fetch workers, scheduler
  clock,                 \* wall clock, ticks of 0.1 s since 00:00:00
  ticks_left,            \* fine clock steps the run may still take
  funding_rates,         \* dict symbol -> rate, in insertion order
  cached_intervals,      \* dict symbol -> interval ({} where absent)
  cached_interval,       \* legacy alias
  most_negative_symbol,  \* legacy alias
  _last_refresh_minute,  \* {} or {<<hour, 50>>}
  fetches,               \* _fetch_and_cache_interval calls in the executor (a bag)
  funding_conn,          \* funding_stream_connection: "none" | "open" | "closed"
  sched_pc,              \* position of the scheduler coroutine
  wake,                  \* instant at which the scheduler's sleep is due
  sessions,              \* the run_logging_session tasks of the current gather
  fire_log,              \* history: every session started, with its tick's now
  evals_in_fired_second, \* history: evaluations in the second of the last firing
  elig,                  \* history: symbols eligible since the trigger second began
  started,               \* history: symbols given a session in this second
  missed,                \* history: symbols eligible for a whole trigger second, not started
  served,                \* history: symbols eligible for a whole trigger second, started in it
  latest,                \* history: per symbol, the rate of the last update received
  t_failed,              \* history (SpecTrack): the latest failed fetch, if any
  t_handled,             \* history (SpecRefresh): hours in whose minute 50 a message was handled
  \* ---- SpecOrder: short_order.py, the new_order coroutine
  o_clock,       \* wall clock, milliseconds since 00:00:00.000 of the first day
  o_pc,          \* position of the new_order coroutine
  o_target,      \* target_time of the current iteration
  o_wake,        \* instant at which the coarse sleep is due
  o_woke,        \* history: instant at which the coarse sleep ended ({}: no sleep)
  o_conn,        \* connection: "none" | "open" | "closed"
  o_listeners,   \* one entry per listener started: "running" | "stopped"
  o_must_cancel, \* Task._must_cancel: cancel() was called, not yet delivered
  o_sends,       \* history: the connection.new_order calls
  o_targets,     \* history: every call of _next_target_time, now and result
  o_events,      \* history: what ended the loop
  \* ---- SpecAnalyze: analyze_latency.py run on one log file
  a_log,         \* the capture log: its lines, in file order
  a_pc,          \* position of the run
  a_book,        \* book_data returned by parse_logs
  a_meta,        \* meta returned by parse_logs
  a_latencies,   \* latencies of analyze_and_plot
  a_max,         \* max_latency and max_latency_idx ({}: none found)
  a_table,       \* the rows printed by print_message_rate_stats
  a_corr,        \* the correlation verdict printed
  a_rate         \* (sorted keys, counts) of compute_message_rate

predVars == <<p_now, p_interval, p_pc, p_result>>
logVars  == <<l_clock, l_base, l_pc, l_deadline, l_book, l_thread, l_queue,
              l_file, l_passed, l_nmsg, l_stopmark, l_events, l_exc, l_popen>>
trackVars == <<funding_rates, cached_intervals, cached_interval,
               most_negative_symbol, _last_refresh_minute, fetches>>
schedVars == <<clock, ticks_left, funding_conn, sched_pc, wake, sessions>>
histVars  == <<fire_log, evals_in_fired_second, elig, started, missed, served, latest>>
orderVars == <<o_clock, o_pc, o_target, o_wake, o_woke, o_conn, o_listeners,
               o_must_cancel, o_sends, o_targets, o_events>>
anVars == <<a_log, a_pc, a_book, a_meta, a_latencies, a_max, a_table, a_corr, a_rate>>
vars == <<predVars, logVars, trackVars, schedVars, histVars, orderVars, anVars, t_failed, t_handled>>

None == {}
Some(v) == {v}
TheValue(o) == CHOOSE v \in o : TRUE

(***************************************************************************)
(* main.py: the settlement predicate                                       *)
(***************************************************************************)

\* Largest interval drawn as an input of the predicate.
MaxInterval == 25

HoursPerDay == 24
TriggerMinute == 59
TriggerSecond == 30

\* range(start, stop, step) as a set; a zero step raises in Python and is
\* never reached here (the caller returns first).
PyRange(start, stop, step) ==
  IF step > 0 THEN {start + k * step : k \in {j \in 0..(stop - start) : start + j * step < stop}}
  ELSE IF step < 0 THEN {start - k * (-step) : k \in {j \in 0..(start - stop) : start - j * (-step) > stop}}
  ELSE {}

\* Mutant: the current hour, not the next one, is looked up.
is_pre_settlement_this_hour(now, interval_hours) ==
  IF interval_hours = None \/ interval_hours = Some(0) THEN FALSE
  ELSE LET settlement_hours == PyRange(0, HoursPerDay, TheValue(interval_hours))
           next_hour == now.hour % HoursPerDay
       IN  next_hour \in settlement_hours /\ now.minute = TriggerMinute /\ now.second = TriggerSecond

\* Mutant: the second is not looked at.
is_pre_settlement_any_second(now, interval_hours) ==
  IF interval_hours = None \/ interval_hours = Some(0) THEN FALSE
  ELSE LET settlement_hours == PyRange(0, HoursPerDay, TheValue(interval_hours))
           next_hour == (now.hour + 1) % HoursPerDay
       IN  next_hour \in settlement_hours /\ now.minute = TriggerMinute

\* `not interval_hours` is true of None and of 0.
_is_pre_settlement(now, interval_hours) ==
  IF interval_hours = None \/ interval_hours = Some(0) THEN FALSE
  ELSE LET settlement_hours == PyRange(0, HoursPerDay, TheValue(interval_hours))
           next_hour == (now.hour + 1) % HoursPerDay
       IN  next_hour \in settlement_hours /\ now.minute = TriggerMinute /\ now.second = TriggerSecond

PredHours == 0..(HoursPerDay - 1)
PredMinutes == {0, 30, 58, 59}
PredSeconds == {0, 29, 30, 31, 59}
PredIntervals == {None} \cup {Some(i) : i \in (-1)..MaxInterval}

PredIdle ==
  /\ p_now = [hour |-> 0, minute |-> 0, second |-> 0]
  /\ p_interval = None
  /\ p_pc = "off"
  /\ p_result = FALSE

PredInit ==
  /\ p_now \in [hour : PredHours, minute : PredMinutes, second : PredSeconds]
  /\ p_interval \in PredIntervals
  /\ p_pc = "call"
  /\ p_result = FALSE

EvalPreSettlement ==
  /\ p_pc = "call"
  /\ p_result' = _is_pre_settlement(p_now, p_interval)
  /\ p_pc' = "done"
  /\ UNCHANGED <<p_now, p_interval>>

(***************************************************************************)
(* utils.py: the capture logger (QueueHandler -> SimpleQueue ->            *)
(* QueueListener worker thread -> file handler)                            *)
(***************************************************************************)

\* Bounds of the logger specification.
MaxMsgs == 2          \* stream messages received in one session
LogClock0 == 999000   \* initial wall clock, microseconds
LogStepUs == 500      \* fine clock step, microseconds
LogSpanUs == 1000     \* width of a window of fine clock steps

UsPerMs == 1000
MsPerSec == 1000
UsPerSec == UsPerMs * MsPerSec
SessionDuration == 60

Sentinel == [kind |-> "sentinel", created |-> 0, msecs |-> 0, level |-> "", msg |-> [kind |-> "", n |-> 0]]

\* logging.LogRecord.__init__ as called by logger.info / logger.error:
\* created is time.time(), msecs its whole milliseconds.
MakeLogRecord(now, level, msg) ==
  [kind |-> "record", created |-> now,
   msecs |-> ((now % UsPerSec) \div UsPerMs) * UsPerMs,
   level |-> level, msg |-> msg]

\* arrival_ms = now * 1000 (in ms, with its fraction);
\* record.created = arrival_ms / 1000; record.msecs = arrival_ms % 1000.
\* Both are kept in microseconds: created is a time, msecs the part of the
\* time within its second.
capture_stream_record(now, n) ==
  [kind |-> "record", created |-> now,
   msecs |-> now % UsPerSec,
   level |-> "INFO", msg |-> [kind |-> "stream", n |-> n]]

\* QueueHandler.emit: prepare() copies the record (created and msecs are
\* kept) and put_nowait() appends it.
Enqueue(q, rec) == Append(q, rec)

\* Mutant: the worker takes the newest record.
DequeueNewest(q) == [item |-> q[Len(q)], rest |-> SubSeq(q, 1, Len(q) - 1)]

\* QueueListener.dequeue: SimpleQueue.get, the oldest record.
Dequeue(q) == [item |-> Head(q), rest |-> Tail(q)]

\* Mutant: the line is stamped when it is written.
FormatLineAtWrite(rec, now) ==
  [sec |-> now \div UsPerSec, ms |-> (now % UsPerSec) \div UsPerMs,
   level |-> rec.level, msg |-> rec.msg,
   late |-> now \div UsPerMs > rec.created \div UsPerMs]

\* logging.Formatter('%(asctime)s - %(levelname)s - %(message)s'):
\* formatTime takes the second from record.created and prints record.msecs
\* with %03d. late is history: the line is written in a later millisecond
\* than the one its record was created in.
FormatLine(rec, now) ==
  [sec |-> rec.created \div UsPerSec, ms |-> rec.msecs \div UsPerMs,
   level |-> rec.level, msg |-> rec.msg,
   late |-> now \div UsPerMs > rec.created \div UsPerMs]

\* The timestamp of a line, in milliseconds.
LineMs(line) == line.sec * MsPerSec + line.ms

LogIdle ==
  /\ l_clock = 0 /\ l_base = 0 /\ l_pc = "off" /\ l_deadline = 0
  /\ l_book = "none" /\ l_thread = "none" /\ l_queue = <<>> /\ l_file = <<>>
  /\ l_passed = <<>> /\ l_nmsg = 0 /\ l_stopmark = 0 /\ l_events = {}
  /\ l_exc = None /\ l_popen = 0

LogInit ==
  /\ l_clock = LogClock0 /\ l_base = LogClock0 /\ l_pc = "setup" /\ l_deadline = 0
  /\ l_book = "none" /\ l_thread = "none" /\ l_queue = <<>> /\ l_file = <<>>
  /\ l_passed = <<>> /\ l_nmsg = 0 /\ l_stopmark = 0 /\ l_events = {}
  /\ l_exc = None /\ l_popen = 0

\* logger.handle(record) on the event loop: the record goes to the queue;
\* l_passed remembers it and the moment of the call.
LoggerHandle(rec) ==
  /\ l_queue' = Enqueue(l_queue, rec)
  /\ l_passed' = Append(l_passed, [msg |-> rec.msg, at |-> l_clock])

\* Time passes: a fine step inside the current window, or, while the
\* session sleeps with its deadline beyond the window, a skip to the deadline.
LogTick ==
  /\ l_pc # "off"
  /\ \/ /\ l_clock + LogStepUs <= l_base + LogSpanUs
        /\ l_clock' = l_clock + LogStepUs
        /\ l_base' = l_base
     \/ /\ l_pc = "sleep"
        /\ l_deadline > l_base + LogSpanUs
        /\ l_clock' = l_deadline
        /\ l_base' = l_deadline
  /\ UNCHANGED <<l_pc, l_deadline, l_book, l_thread, l_queue, l_file, l_passed,
                 l_nmsg, l_stopmark, l_events, l_exc, l_popen>>

\* Mutant: the worker does not end on the sentinel.
ListenerMonitorIgnoresSentinel ==
  /\ l_thread = "running"
  /\ l_queue # <<>>
  /\ LET d == Dequeue(l_queue) IN
       /\ l_queue' = d.rest
       /\ IF d.item.kind = "sentinel"
          THEN l_thread' = l_thread /\ l_file' = l_file
          ELSE l_thread' = l_thread /\ l_file' = Append(l_file, FormatLine(d.item, l_clock))
  /\ UNCHANGED <<l_clock, l_base, l_pc, l_deadline, l_book, l_passed, l_nmsg,
                 l_stopmark, l_events, l_exc, l_popen>>

\* QueueListener._monitor, one iteration: take the oldest record; the
\* sentinel ends the thread, any other record is formatted and written.
ListenerMonitor ==
  /\ l_thread = "running"
  /\ l_queue # <<>>
  /\ LET d == Dequeue(l_queue) IN
       /\ l_queue' = d.rest
       /\ IF d.item.kind = "sentinel"
          THEN l_thread' = "exited" /\ l_file' = l_file
          ELSE l_thread' = l_thread /\ l_file' = Append(l_file, FormatLine(d.item, l_clock))
  /\ UNCHANGED <<l_clock, l_base, l_pc, l_deadline, l_book, l_passed, l_nmsg,
                 l_stopmark, l_events, l_exc, l_popen>>

(***************************************************************************)
(* streams.py: run_logging_session, one capture session                    *)
(***************************************************************************)

StartMsg == [kind |-> "start", n |-> 0]
ErrorMsg == [kind |-> "error", n |-> 0]
EndMsg   == [kind |-> "end", n |-> 0]

\* The listed exit paths end in the tail of the finally block:
\* logger.info("Session ended..."), then listener.stop(), whose first half
\* (enqueue_sentinel) is done here; the join is ListenerStopJoin.
\* `recs` are the records logged in this step before the tail is reached.
SessionEnding(recs) ==
  LET all == recs \o <<MakeLogRecord(l_clock, "INFO", EndMsg)>>
      AppendAll(q, rs) == IF Len(rs) = 1 THEN Enqueue(q, rs[1])
                          ELSE Enqueue(Enqueue(q, rs[1]), rs[2])
  IN  /\ l_passed' = l_passed \o [i \in 1..Len(all) |-> [msg |-> all[i].msg, at |-> l_clock]]
      /\ l_stopmark' = Len(l_passed')
      /\ l_queue' = Enqueue(AppendAll(l_queue, all), Sentinel)
      /\ l_pc' = "joining"

\* Lines 105-114: the logger is created, the listener thread started and the
\* header logged; or setup_async_logger raises (makedirs, FileHandler).
SessionSetup ==
  /\ l_pc = "setup"
  /\ \/ /\ l_thread' = "running"
        /\ LoggerHandle(MakeLogRecord(l_clock, "INFO", StartMsg))
        /\ l_pc' = "connect"
        /\ UNCHANGED <<l_events, l_exc>>
     \/ /\ l_pc' = "returned"
        /\ l_exc' = Some("OSError")
        /\ l_events' = l_events \cup {"setup_fail"}
        /\ UNCHANGED <<l_thread, l_queue, l_passed>>
  /\ UNCHANGED <<l_clock, l_base, l_deadline, l_book, l_file, l_nmsg, l_stopmark, l_popen>>

\* await client.websocket_streams.create_connection()
SessionConnect ==
  /\ l_pc = "connect"
  /\ \/ /\ l_pc' = "subscribe"
        /\ UNCHANGED <<l_queue, l_passed, l_stopmark, l_events, l_exc>>
     \/ /\ SessionEnding(<<MakeLogRecord(l_clock, "ERROR", ErrorMsg)>>)
        /\ l_events' = l_events \cup {"connect_fail"}
        /\ UNCHANGED l_exc
     \/ /\ SessionEnding(<<>>)
        /\ l_events' = l_events \cup {"cancel_connect"}
        /\ l_exc' = Some("CancelledError")
  /\ UNCHANGED <<l_clock, l_base, l_deadline, l_book, l_thread, l_file, l_nmsg, l_popen>>

\* book_ticker = await ...individual_symbol_book_ticker_streams(...);
\* book_ticker.on("message", ...); then asyncio.sleep(duration) begins.
SessionSubscribe ==
  /\ l_pc = "subscribe"
  /\ \/ /\ l_pc' = "sleep"
        /\ l_book' = "subscribed"
        /\ l_deadline' = l_clock + SessionDuration * UsPerSec
        /\ UNCHANGED <<l_queue, l_passed, l_stopmark, l_events, l_exc>>
     \/ /\ SessionEnding(<<MakeLogRecord(l_clock, "ERROR", ErrorMsg)>>)
        /\ l_events' = l_events \cup {"subscribe_fail"}
        /\ UNCHANGED <<l_book, l_deadline, l_exc>>
     \/ /\ SessionEnding(<<>>)
        /\ l_events' = l_events \cup {"cancel_subscribe"}
        /\ l_exc' = Some("CancelledError")
        /\ UNCHANGED <<l_book, l_deadline>>
  /\ UNCHANGED <<l_clock, l_base, l_thread, l_file, l_nmsg, l_popen>>

\* The book-ticker callback: capture_stream_record(logger, E, data). It runs
\* on the event loop whenever the coroutine is suspended in an await, and
\* goes on after the return if the stream was not unsubscribed.
SessionMessage ==
  /\ l_book = "subscribed"
  /\ l_pc \in {"sleep", "unsub", "returned"}
  /\ l_nmsg < MaxMsgs
  /\ l_nmsg' = l_nmsg + 1
  /\ LoggerHandle(capture_stream_record(l_clock, l_nmsg + 1))
  /\ UNCHANGED <<l_clock, l_base, l_pc, l_deadline, l_book, l_thread, l_file,
                 l_stopmark, l_events, l_exc, l_popen>>

\* asyncio.sleep(duration) ends: the timer is due, or the task is cancelled.
\* Either way the finally block awaits book_ticker.unsubscribe().
SessionSleepEnds ==
  /\ l_pc = "sleep"
  /\ \/ /\ l_clock >= l_deadline
        /\ l_events' = l_events \cup {"timeout"}
        /\ UNCHANGED l_exc
     \/ /\ l_events' = l_events \cup {"cancel_sleep"}
        /\ l_exc' = Some("CancelledError")
  /\ l_pc' = "unsub"
  /\ UNCHANGED <<l_clock, l_base, l_deadline, l_book, l_thread, l_queue, l_file,
                 l_passed, l_nmsg, l_stopmark, l_popen>>

\* Mutant: a failing unsubscribe is not caught and leaves the coroutine.
SessionUnsubscribeFailsUncaught ==
  /\ l_pc = "unsub"
  /\ l_events' = l_events \cup {"unsub_fail"}
  /\ l_exc' = Some("Exception")
  /\ l_pc' = "returned"
  /\ UNCHANGED <<l_clock, l_base, l_deadline, l_book, l_thread, l_queue, l_file,
                 l_passed, l_nmsg, l_stopmark, l_popen>>

\* await book_ticker.unsubscribe() raises an Exception: swallowed.
SessionUnsubscribeFails ==
  /\ l_pc = "unsub"
  /\ SessionEnding(<<>>)
  /\ l_events' = l_events \cup {"unsub_fail"}
  /\ UNCHANGED <<l_clock, l_base, l_deadline, l_book, l_thread, l_file, l_nmsg,
                 l_exc, l_popen>>

\* await book_ticker.unsubscribe() returns, or a cancellation is delivered
\* in it: CancelledError is no Exception and leaves the finally block.
SessionUnsubscribe ==
  /\ l_pc = "unsub"
  /\ \/ /\ SessionEnding(<<>>)
        /\ l_book' = "unsubscribed"
        /\ UNCHANGED <<l_events, l_exc>>
     \/ /\ l_pc' = "returned"
        /\ l_events' = l_events \cup {"cancel_unsub"}
        /\ l_exc' = Some("CancelledError")
        /\ UNCHANGED <<l_book, l_queue, l_passed, l_stopmark>>
  /\ UNCHANGED <<l_clock, l_base, l_deadline, l_thread, l_file, l_nmsg, l_popen>>

\* Mutant: stop() does not wait for the worker thread.
JoinedNoWait == TRUE

\* QueueListener.stop: self._thread.join() returns once the thread has ended.
Joined == l_thread = "exited"

\* Mutant: the analysis is started before listener.stop() has returned.
ListenerStopJoinEarly ==
  /\ l_pc = "joining"
  /\ l_pc' = "returned"
  /\ \/ /\ l_popen' = l_popen + 1
        /\ UNCHANGED <<l_events, l_exc>>
     \/ /\ l_events' = l_events \cup {"popen_fail"}
        /\ l_exc' = Some("OSError")
        /\ UNCHANGED l_popen
  /\ UNCHANGED <<l_clock, l_base, l_deadline, l_book, l_thread, l_queue, l_file,
                 l_passed, l_nmsg, l_stopmark>>

\* listener.stop() returns; subprocess.Popen starts the analysis (or raises).
ListenerStopJoin ==
  /\ l_pc = "joining"
  /\ Joined
  /\ l_pc' = "returned"
  /\ \/ /\ l_popen' = l_popen + 1
        /\ UNCHANGED <<l_events, l_exc>>
     \/ /\ l_events' = l_events \cup {"popen_fail"}
        /\ l_exc' = Some("OSError")
        /\ UNCHANGED l_popen
  /\ UNCHANGED <<l_clock, l_base, l_deadline, l_book, l_thread, l_queue, l_file,
                 l_passed, l_nmsg, l_stopmark>>

LogNext ==
  \/ LogTick
  \/ ListenerMonitor
  \/ SessionSetup
  \/ SessionConnect
  \/ SessionSubscribe
  \/ SessionMessage
  \/ SessionSleepEnds
  \/ SessionUnsubscribeFails
  \/ SessionUnsubscribe
  \/ ListenerStopJoin

(***************************************************************************)
(* streams.py: the funding-rate tracker and the interval cache             *)
(***************************************************************************)

\* Bounds of the scheduler specification.
MaxFetches == 1     \* distinct interval fetches in flight
MaxJitter == 1      \* ticks by which a due coroutine may resume late
MaxTicks == 3       \* fine clock steps of one run of Spec
TimingTicks == 12   \* fine clock steps of one run of SpecTiming
LeadTicks == 1      \* ticks between the start and the next hh:59:30

TicksPerSec == 10
FUNDING_RATE_THRESHOLD == -3    \* -0.003, rates are in thousandths

Symbols == {"A", "B"}
Rates == {-4, -3}
\* fundingIntervalHours of each symbol on the exchange.
ExchangeInterval(x) == IF x = "A" THEN 8 ELSE 1

\* datetime fields of a clock value.
HourOf(t)   == (t \div (3600 * TicksPerSec)) % HoursPerDay
MinuteOf(t) == (t \div (60 * TicksPerSec)) % 60
SecondOf(t) == (t \div TicksPerSec) % 60
SubTick(t)  == t % TicksPerSec
NowOf(t) == [hour |-> HourOf(t), minute |-> MinuteOf(t), second |-> SecondOf(t)]
ClockAt(h, m, sec) == ((h * 60 + m) * 60 + sec) * TicksPerSec

\* A dict is the sequence of its <<key, value>> items in insertion order.
DictKeys(d) == [i \in 1..Len(d) |-> d[i][1]]
DictHas(d, k) == \E i \in 1..Len(d) : d[i][1] = k
DictGet(d, k) == {d[i][2] : i \in {j \in 1..Len(d) : d[j][1] = k}}
DictSet(d, k, v) ==
  IF DictHas(d, k)
  THEN LET i == CHOOSE j \in 1..Len(d) : d[j][1] = k
       IN  SubSeq(d, 1, i - 1) \o <<<<k, v>>>> \o SubSeq(d, i + 1, Len(d))
  ELSE Append(d, <<k, v>>)

\* Mutant: a rate equal to the threshold qualifies too.
qualifying_symbols_inclusive(fr) ==
  DictKeys(SelectSeq(fr, LAMBDA it : it[2] <= FUNDING_RATE_THRESHOLD))

\* [s for s, r in funding_rates.items() if r < FUNDING_RATE_THRESHOLD]
qualifying_symbols(fr) ==
  DictKeys(SelectSeq(fr, LAMBDA it : it[2] < FUNDING_RATE_THRESHOLD))

\* min(funding_rates, key=funding_rates.get): the first key of least rate.
MinKey(fr) ==
  LET i == CHOOSE j \in 1..Len(fr) :
             /\ \A k \in 1..Len(fr) : fr[j][2] <= fr[k][2]
             /\ \A k \in 1..(j - 1) : fr[k][2] > fr[j][2]
  IN  fr[i][1]

\* A mark-price message: entries with attribute s (or none) and r (or none).
Entries == [s : {None} \cup {Some(x) : x \in Symbols}, r : {None} \cup {Some(x) : x \in Rates}]
\* Messages of one entry; the scheduler specification receives these.
Messages1 == [1..1 -> Entries]

\* for entry in data: if symbol and rate is not None: funding_rates[symbol] = float(rate)
RECURSIVE ApplyEntries(_, _)
ApplyEntries(fr, data) ==
  IF data = <<>> THEN fr
  ELSE LET e == Head(data)
           fr1 == IF e.s # None /\ e.r # None
                  THEN DictSet(fr, TheValue(e.s), TheValue(e.r)) ELSE fr
       IN  ApplyEntries(fr1, Tail(data))

SeqToSet(q) == {q[i] : i \in 1..Len(q)}

\* The symbols that qualify, have a cached interval of their own and whose
\* interval has the hour after t among its settlement hours (history only).
EligibleAt(fr, ci, t) ==
  {s \in Symbols :
     /\ \E r \in DictGet(fr, s) : r < -3
     /\ \E v \in ci[s] : v > 0 /\ ((HourOf(t) + 1) % 24) % v = 0}

InTriggerSecond(t) == MinuteOf(t) = 59 /\ SecondOf(t) = 30

\* _handle_mark_price(client, data): runs whole on the event loop.
\* (The once-a-minute console print changes nothing modelled and is left out.)
HandleMarkPriceFrom(msgs, max_fetches) ==
  /\ funding_conn = "open"
  /\ \E data \in msgs :
       LET fr == ApplyEntries(funding_rates, data) IN
       /\ funding_rates' = fr
       /\ latest' = [x \in Symbols |->
                       LET upd == {i \in 1..Len(data) : data[i].s = Some(x) /\ data[i].r # None}
                       IN  IF upd = {} THEN latest[x]
                           ELSE data[CHOOSE i \in upd : \A j \in upd : j <= i].r]
       /\ IF fr = <<>>
          THEN UNCHANGED <<most_negative_symbol, cached_interval, _last_refresh_minute, fetches>>
          ELSE LET mns == MinKey(fr)
                   periodic_refresh == /\ MinuteOf(clock) = 50
                                       /\ _last_refresh_minute # Some(<<HourOf(clock), 50>>)
                   submit == {x \in SeqToSet(qualifying_symbols(fr)) :
                                cached_intervals[x] = None \/ periodic_refresh}
               IN  /\ most_negative_symbol' = mns
                   /\ _last_refresh_minute' = IF periodic_refresh
                                              THEN Some(<<HourOf(clock), 50>>)
                                              ELSE _last_refresh_minute
                   /\ fetches' = fetches (+)
                        SetToBag({[symbol |-> x, stage |-> "call", interval |-> None] : x \in submit})
                   /\ BagCardinality(fetches') <= max_fetches
                   /\ cached_interval' = cached_intervals[mns]
       /\ elig' = elig \cap EligibleAt(fr, cached_intervals, clock)
  /\ UNCHANGED <<cached_intervals, schedVars, fire_log, evals_in_fired_second, started, missed, served>>

HandleMarkPrice == HandleMarkPriceFrom(Messages1, MaxFetches)

\* The timing specification receives the rates of symbol "A" only.
TimingMessages == {m \in Messages1 : m[1].s \in {None, Some("A")}}
HandleMarkPriceTiming == HandleMarkPriceFrom(TimingMessages, MaxFetches)

\* The executor's tasks: one finishes, or moves on to its next statement.
TaskDone(tasks, w) == tasks (-) SetToBag({w})
TaskMoves(tasks, w, w1) == (tasks (-) SetToBag({w})) (+) SetToBag({w1})

\* Mutant: a failed fetch forgets the symbol's cached interval.
FetchCallForgetsOnFailure ==
  \E w \in BagToSet(fetches) :
    /\ w.stage = "call"
    /\ \E res \in {None, Some(ExchangeInterval(w.symbol))} :
         /\ fetches' = IF res = None THEN TaskDone(fetches, w)
                       ELSE TaskMoves(fetches, w, [symbol |-> w.symbol, stage |-> "store", interval |-> res])
         /\ cached_intervals' = IF res = None THEN [cached_intervals EXCEPT ![w.symbol] = None]
                                ELSE cached_intervals
    /\ UNCHANGED <<funding_rates, cached_interval, most_negative_symbol,
                   _last_refresh_minute, schedVars, histVars>>

\* _fetch_and_cache_interval on an executor thread, statement by statement.
\* _get_funding_interval returns the symbol's interval, or None (the request
\* raised, the symbol is not listed, the field is missing).
FetchCall ==
  \E w \in BagToSet(fetches) :
    /\ w.stage = "call"
    /\ \E res \in {None, Some(ExchangeInterval(w.symbol))} :
         fetches' = IF res = None THEN TaskDone(fetches, w)
                    ELSE TaskMoves(fetches, w, [symbol |-> w.symbol, stage |-> "store", interval |-> res])
    /\ UNCHANGED <<funding_rates, cached_intervals, cached_interval, most_negative_symbol,
                   _last_refresh_minute, schedVars, histVars>>

\* cached_intervals[symbol] = interval
FetchStore ==
  \E w \in BagToSet(fetches) :
    /\ w.stage = "store"
    /\ cached_intervals' = [cached_intervals EXCEPT ![w.symbol] = w.interval]
    /\ fetches' = TaskMoves(fetches, w, [w EXCEPT !.stage = "check"])
    /\ elig' = elig \cap EligibleAt(funding_rates, cached_intervals', clock)
    /\ UNCHANGED <<funding_rates, cached_interval, most_negative_symbol,
                   _last_refresh_minute, schedVars, fire_log, evals_in_fired_second,
                   started, missed, served, latest>>

\* if symbol == most_negative_symbol: (the global is read here)
FetchCheck ==
  \E w \in BagToSet(fetches) :
    /\ w.stage = "check"
    /\ fetches' = IF w.symbol = most_negative_symbol
                  THEN TaskMoves(fetches, w, [w EXCEPT !.stage = "alias"])
                  ELSE TaskDone(fetches, w)
    /\ UNCHANGED <<funding_rates, cached_intervals, cached_interval, most_negative_symbol,
                   _last_refresh_minute, schedVars, histVars>>

\* cached_interval = interval
FetchAlias ==
  \E w \in BagToSet(fetches) :
    /\ w.stage = "alias"
    /\ cached_interval' = w.interval
    /\ fetches' = TaskDone(fetches, w)
    /\ UNCHANGED <<funding_rates, cached_intervals, most_negative_symbol,
                   _last_refresh_minute, schedVars, histVars>>

(***************************************************************************)
(* main.py: the scheduler                                                  *)
(***************************************************************************)

StartHours == {23, 0}
StartClocks == {ClockAt(h, 59, 30) - LeadTicks : h \in StartHours}

\* await asyncio.sleep(0.1): one tick.
PollSleepTicks == 1

\* Mutant: the idle sleep is longer than a second.
PostPollWakeLong(t) == t + TicksPerSec + PollSleepTicks

\* The instant at which the idle sleep begun at t is due.
PostPollWake(t) == t + PollSleepTicks

\* Mutant: after a firing the scheduler sleeps like an idle tick.
PostFireWakeShort(t) == t + PollSleepTicks

\* await asyncio.sleep(1 - datetime.now().microsecond / 1_000_000):
\* due at the next whole second after t (a full second when t is whole).
PostFireWake(t) == t + (TicksPerSec - SubTick(t))

\* streams.cached_intervals.get(s, streams.cached_interval)
IntervalFor(x) == IF cached_intervals[x] # None THEN cached_intervals[x] ELSE cached_interval

\* [s for s in qualifying_symbols() if _is_pre_settlement(now, ...)]
SymbolsToLog(t) ==
  SelectSeq(qualifying_symbols(funding_rates),
            LAMBDA x : _is_pre_settlement(NowOf(t), IntervalFor(x)))

Sleeping == sched_pc \in {"wait_data", "poll", "post_sleep"}
Running(i) == sessions[i].state = "running"
AllFinished == \A i \in 1..Len(sessions) : ~Running(i)
SessionDue(i) == sessions[i].started + sessions[i].duration * TicksPerSec

SchedIdle ==
  /\ clock = 0 /\ ticks_left = 0
  /\ funding_rates = <<>> /\ cached_intervals = [x \in Symbols |-> None]
  /\ cached_interval = None /\ most_negative_symbol = ""
  /\ _last_refresh_minute = None /\ fetches = EmptyBag
  /\ funding_conn = "none" /\ sched_pc = "off" /\ wake = 0 /\ sessions = <<>>
  /\ fire_log = <<>> /\ evals_in_fired_second = 0
  /\ elig = {} /\ started = {} /\ missed = {} /\ served = {}
  /\ latest = [x \in Symbols |-> None] /\ t_failed = {} /\ t_handled = {}

\* The module globals of streams.py as imported, the scheduler not yet run.
SchedInitFor(ticks) ==
  /\ clock \in StartClocks /\ ticks_left = ticks
  /\ funding_rates = <<>> /\ cached_intervals = [x \in Symbols |-> None]
  /\ cached_interval = None /\ most_negative_symbol = ""
  /\ _last_refresh_minute = None /\ fetches = EmptyBag
  /\ funding_conn = "none" /\ sched_pc = "start" /\ wake = 0 /\ sessions = <<>>
  /\ fire_log = <<>> /\ evals_in_fired_second = 0
  /\ elig = {} /\ started = {} /\ missed = {} /\ served = {}
  /\ latest = [x \in Symbols |-> None] /\ t_failed = {} /\ t_handled = {}

\* History kept when the clock moves to t1: on leaving a trigger second the
\* symbols eligible throughout it and not started are recorded as missed.
HistOnAdvance(t1) ==
  IF clock \div TicksPerSec = t1 \div TicksPerSec
  THEN UNCHANGED <<elig, started, missed, served>>
  ELSE /\ missed' = IF InTriggerSecond(clock) THEN missed \cup (elig \ started) ELSE missed
       /\ served' = IF InTriggerSecond(clock) THEN served \cup (elig \cap started) ELSE served
       /\ elig' = IF InTriggerSecond(t1)
                  THEN EligibleAt(funding_rates, cached_intervals, t1) ELSE {}
       /\ started' = {}

\* Time passes. A sleeping scheduler, or one whose gather is complete,
\* resumes at most MaxJitter ticks late; while sessions run with their end
\* further away, the clock may skip to the earliest end.
Advance ==
  /\ sched_pc \in {"start", "wait_data", "poll", "post_sleep", "gather"}
  /\ \/ /\ ticks_left > 0
        /\ (Sleeping \/ (sched_pc = "gather" /\ AllFinished)) => clock + 1 <= wake + MaxJitter
        /\ sched_pc = "gather" => \A i \in 1..Len(sessions) :
                                     Running(i) => clock + 1 <= SessionDue(i) + MaxJitter
        /\ clock' = clock + 1
        /\ ticks_left' = ticks_left - 1
     \/ /\ sched_pc = "gather" /\ ~AllFinished
        /\ \A i \in 1..Len(sessions) : Running(i) => SessionDue(i) > clock + 1
        /\ \E i \in 1..Len(sessions) :
             /\ Running(i)
             /\ \A j \in 1..Len(sessions) : Running(j) => SessionDue(i) <= SessionDue(j)
             /\ clock' = SessionDue(i)
        /\ ticks_left' = ticks_left
  /\ HistOnAdvance(clock')
  /\ UNCHANGED <<trackVars, funding_conn, sched_pc, wake, sessions, fire_log,
                 evals_in_fired_second, latest>>

\* Line 65 and the first test of line 69: start_funding_rate_stream returns
\* the connection (the handler is registered) or None after a failure.
SchedulerStart ==
  /\ sched_pc = "start"
  /\ funding_conn' \in {"open", "none"}
  /\ IF funding_rates = <<>>
     THEN sched_pc' = "wait_data" /\ wake' = PostPollWake(clock)
     ELSE sched_pc' = "poll" /\ wake' = clock
  /\ UNCHANGED <<clock, ticks_left, sessions, trackVars, histVars>>

\* Lines 69-70: no funding rate yet, sleep again.
SchedulerWaitData ==
  /\ sched_pc = "wait_data"
  /\ clock >= wake
  /\ funding_rates = <<>>
  /\ wake' = PostPollWake(clock)
  /\ UNCHANGED <<clock, ticks_left, funding_conn, sched_pc, sessions, trackVars, histVars>>

\* Lines 74-87, one iteration of the poll loop up to its await: now is read
\* once, the symbols are selected, and either one session per selected
\* symbol is started under asyncio.gather, or the idle sleep begins.
SchedulerEvaluate ==
  /\ \/ sched_pc \in {"poll", "post_sleep"}
     \/ sched_pc = "wait_data" /\ funding_rates # <<>>
  /\ clock >= wake
  /\ LET symbols_to_log == SymbolsToLog(clock)
         same_second == /\ fire_log # <<>>
                        /\ fire_log[Len(fire_log)].sec = clock \div TicksPerSec
     IN  IF symbols_to_log # <<>>
         THEN /\ sessions' = [i \in 1..Len(symbols_to_log) |->
                                [symbol |-> symbols_to_log[i], started |-> clock,
                                 duration |-> SessionDuration, state |-> "running",
                                 conn |-> "none"]]
              /\ sched_pc' = "gather"
              /\ wake' = wake
              /\ fire_log' = fire_log \o
                   [i \in 1..Len(symbols_to_log) |->
                      [symbol |-> symbols_to_log[i], sec |-> clock \div TicksPerSec,
                       own |-> cached_intervals[symbols_to_log[i]]]]
              /\ started' = started \cup SeqToSet(symbols_to_log)
              /\ evals_in_fired_second' = IF same_second THEN evals_in_fired_second + 1 ELSE 1
         ELSE /\ sched_pc' = "poll"
              /\ wake' = PostPollWake(clock)
              /\ evals_in_fired_second' = IF same_second THEN evals_in_fired_second + 1
                                          ELSE evals_in_fired_second
              /\ UNCHANGED <<sessions, fire_log, started>>
  /\ UNCHANGED <<clock, ticks_left, funding_conn, trackVars, elig, missed, served, latest>>

\* One run_logging_session task ends: after its duration ("timeout"),
\* earlier after a connection or subscription error it caught ("error"),
\* or with an exception of its own ("raised": the log file cannot be
\* opened, the analysis cannot be launched). conn notes whether the session
\* had opened its stream connection (streams.py line 118); no statement of
\* the session or of the scheduler closes it. wake notes when the last one
\* ended: the gather is then complete.
SessionFinish ==
  /\ sched_pc = "gather"
  /\ \E i \in 1..Len(sessions) :
       /\ Running(i)
       /\ \E outcome \in {"timeout", "error", "raised"}, opened \in {"none", "open"} :
            /\ outcome = "timeout" => (clock >= SessionDue(i) /\ opened = "open")
            /\ sessions' = [sessions EXCEPT
                             ![i].state = IF outcome = "raised" THEN "raised" ELSE "ended",
                             ![i].conn = opened]
       /\ wake' = IF \A j \in 1..Len(sessions) : j # i => ~Running(j) THEN clock ELSE wake
  /\ UNCHANGED <<clock, ticks_left, funding_conn, sched_pc, trackVars, histVars>>

\* Mutant: the gather returns as soon as one session has ended, the others
\* still running.
GatherDoneAtFirst ==
  /\ sched_pc = "gather"
  /\ \E i \in 1..Len(sessions) : ~Running(i)
  /\ \A i \in 1..Len(sessions) : sessions[i].state # "raised"
  /\ sessions' = sessions
  /\ sched_pc' = "post_sleep"
  /\ wake' = PostFireWake(clock)
  /\ UNCHANGED <<clock, ticks_left, funding_conn, trackVars, histVars>>

\* asyncio.gather returns: every session has ended and none raised. The
\* scheduler sleeps to the next whole second.
GatherDone ==
  /\ sched_pc = "gather"
  /\ AllFinished
  /\ \A i \in 1..Len(sessions) : sessions[i].state # "raised"
  /\ sessions' = <<>>
  /\ sched_pc' = "post_sleep"
  /\ wake' = PostFireWake(clock)
  /\ UNCHANGED <<clock, ticks_left, funding_conn, trackVars, histVars>>

\* asyncio.gather re-raises the first exception of a session: the scheduler
\* logs it (except Exception), closes the funding connection (finally) and
\* returns; asyncio.run then cancels the sessions still running.
GatherRaises ==
  /\ sched_pc = "gather"
  /\ \E i \in 1..Len(sessions) : sessions[i].state = "raised"
  /\ \E opened \in SUBSET {i \in 1..Len(sessions) : Running(i)} :
       sessions' = [i \in 1..Len(sessions) |->
                      IF Running(i)
                      THEN [sessions[i] EXCEPT !.state = "cancelled",
                                               !.conn = IF i \in opened THEN "open" ELSE "none"]
                      ELSE sessions[i]]
  /\ sched_pc' = "closed"
  /\ funding_conn' = IF funding_conn = "open" THEN "closed" ELSE funding_conn
  /\ UNCHANGED <<clock, ticks_left, wake, trackVars, histVars>>

(***************************************************************************)
(* short_order.py: the precision order loop                                *)
(***************************************************************************)

\* Bounds of the order specification.
MaxOrders == 2      \* iterations of the loop (targets computed) in one run
MaxLateMs == 60     \* largest lateness of the coarse sleep's wake-up
MaxLatencyMs == 35  \* largest delay of the order response

TARGET_HOUR == 1
TARGET_MINUTE == 0
TARGET_SECOND == 0
TARGET_MILLISECOND == 200
MsPerDay == 86400000
CoarseMarginMs == 50

\* The target's time of day, in milliseconds.
TargetOfDayMs ==
  ((TARGET_HOUR * 60 + TARGET_MINUTE) * 60 + TARGET_SECOND) * MsPerSec + TARGET_MILLISECOND

\* now.replace(hour=..., minute=..., second=..., microsecond=...)
ReplaceTimeOfDay(now) == (now \div MsPerDay) * MsPerDay + TargetOfDayMs

\* Mutant: an instant equal to now is not rolled to tomorrow.
next_target_time_strict(now) ==
  LET target == ReplaceTimeOfDay(now)
  IN  IF target < now THEN target + MsPerDay ELSE target

\* Mutant: a passed target is rolled by two days.
next_target_time_two_days(now) ==
  LET target == ReplaceTimeOfDay(now)
  IN  IF target <= now THEN target + 2 * MsPerDay ELSE target

\* _next_target_time(), with the value datetime.now() returned.
_next_target_time(now) ==
  LET target == ReplaceTimeOfDay(now)
  IN  IF target <= now THEN target + MsPerDay ELSE target

\* Mutant: the busy-wait ends at once.
SpinExitsAtOnce(now, target_epoch) == TRUE

\* while time.time() < target_epoch_s: the loop is left when the test fails.
SpinExits(now, target_epoch) == ~(now < target_epoch)

\* The instants, relative to the first day's target, at which new_order starts.
StartOffsetsMs == {-TargetOfDayMs, -1000, -CoarseMarginMs, -20, 0, 5, MsPerDay - TargetOfDayMs - 1}
\* Lateness of the coarse sleep's wake-up; time between two clock reads of
\* the busy-wait; delay of the order response.
LatenessMs == {0, 3, MaxLateMs}
SpinStepsMs == {10, 25}
LatenciesMs == {0, MaxLatencyMs}

OrderIdle ==
  /\ o_clock = 0 /\ o_pc = "off" /\ o_target = 0 /\ o_wake = 0 /\ o_woke = None
  /\ o_conn = "none" /\ o_listeners = <<>> /\ o_must_cancel = FALSE
  /\ o_sends = <<>> /\ o_targets = <<>> /\ o_events = {}

OrderInit ==
  /\ o_clock \in {TargetOfDayMs + d : d \in StartOffsetsMs}
  /\ o_pc = "connect" /\ o_target = 0 /\ o_wake = 0 /\ o_woke = None
  /\ o_conn = "none" /\ o_listeners = <<>> /\ o_must_cancel = FALSE
  /\ o_sends = <<>> /\ o_targets = <<>> /\ o_events = {}

\* Line 85: connection = await client.websocket_api.create_connection(),
\* before the try block: a failure leaves new_order at once.
OrderConnect ==
  /\ o_pc = "connect"
  /\ \/ /\ o_conn' = "open" /\ o_pc' = "iterate"
        /\ UNCHANGED o_events
     \/ /\ o_pc' = "done"
        /\ o_events' = o_events \cup {"connect_fail"}
        /\ UNCHANGED o_conn
  /\ UNCHANGED <<o_clock, o_target, o_wake, o_woke, o_listeners, o_must_cancel,
                 o_sends, o_targets>>

\* Lines 90-100, the head of an iteration: the target is computed, the
\* logger created and its listener started (or setup_async_logger raises),
\* and the coarse sleep begins if more than the margin is left.
OrderIterate ==
  /\ o_pc = "iterate"
  /\ Len(o_targets) < MaxOrders
  /\ LET target_time == _next_target_time(o_clock)
         coarse_wait == (target_time - o_clock) - CoarseMarginMs
     IN  /\ o_targets' = Append(o_targets, [now |-> o_clock, target |-> target_time])
         /\ o_target' = target_time
         /\ o_woke' = None
         /\ \/ /\ o_listeners' = Append(o_listeners, "running")
               /\ IF coarse_wait > 0
                  THEN o_pc' = "sleep" /\ o_wake' = o_clock + coarse_wait
                  ELSE o_pc' = "spin" /\ o_wake' = o_wake
               /\ UNCHANGED o_events
            \/ /\ o_pc' = "closing"
               /\ o_events' = o_events \cup {"setup_fail"}
               /\ UNCHANGED <<o_listeners, o_wake>>
  /\ UNCHANGED <<o_clock, o_conn, o_must_cancel, o_sends>>

\* Mutant: the coarse sleep may return ahead of its due instant.
OrderSleepEndsEarly ==
  /\ o_pc = "sleep"
  /\ \E late \in LatenessMs :
       /\ o_clock' = o_wake - late
       /\ o_woke' = Some(o_wake - late)
  /\ o_pc' = "spin"
  /\ UNCHANGED <<o_target, o_wake, o_conn, o_listeners, o_must_cancel, o_sends,
                 o_targets, o_events>>

\* await asyncio.sleep(coarse_wait) returns: at its due instant or later.
OrderSleepEnds ==
  /\ o_pc = "sleep"
  /\ \E late \in LatenessMs :
       /\ o_clock' = o_wake + late
       /\ o_woke' = Some(o_wake + late)
  /\ o_pc' = "spin"
  /\ UNCHANGED <<o_target, o_wake, o_conn, o_listeners, o_must_cancel, o_sends,
                 o_targets, o_events>>

\* The task is cancelled during the coarse sleep: CancelledError is raised
\* in the await, caught by `except asyncio.CancelledError: pass`.
OrderCancelInSleep ==
  /\ o_pc = "sleep"
  /\ o_clock' \in {o_clock, o_wake}
  /\ o_pc' = "closing"
  /\ o_events' = o_events \cup {"cancel_sleep"}
  /\ UNCHANGED <<o_target, o_wake, o_woke, o_conn, o_listeners, o_must_cancel,
                 o_sends, o_targets>>

\* Lines 104-105, one turn of the busy-wait: the clock is read and the
\* target not yet reached.
OrderSpin ==
  /\ o_pc = "spin"
  /\ ~SpinExits(o_clock, o_target)
  /\ \E step \in SpinStepsMs : o_clock' = o_clock + step
  /\ UNCHANGED <<o_pc, o_target, o_wake, o_woke, o_conn, o_listeners, o_must_cancel,
                 o_sends, o_targets, o_events>>

\* cancel() is called on the task while it runs the busy-wait (from the
\* signal handler of asyncio.run, or from another thread): the coroutine is
\* not suspended, the request is noted and delivered at its next await.
OrderCancelInSpin ==
  /\ o_pc = "spin"
  /\ ~SpinExits(o_clock, o_target)
  /\ ~o_must_cancel
  /\ o_must_cancel' = TRUE
  /\ o_events' = o_events \cup {"cancel_spin"}
  /\ UNCHANGED <<o_clock, o_pc, o_target, o_wake, o_woke, o_conn, o_listeners,
                 o_sends, o_targets>>

\* Lines 104-111: the busy-wait is left, send_time is read, the record is
\* logged and connection.new_order(...) is called.
OrderFire ==
  /\ o_pc = "spin"
  /\ SpinExits(o_clock, o_target)
  /\ o_sends' = Append(o_sends, [target |-> o_target, send_time |-> o_clock,
                                 woke |-> o_woke, cancel_pending |-> o_must_cancel])
  /\ o_pc' = "await_order"
  /\ UNCHANGED <<o_clock, o_target, o_wake, o_woke, o_conn, o_listeners,
                 o_must_cancel, o_targets, o_events>>

\* Lines 111-125: the await of the order ends. A pending cancellation is
\* delivered here; otherwise the response arrives and the listener is
\* stopped, or the call (or response.data()) raises, or the task is
\* cancelled while it waits.
OrderResponse ==
  /\ o_pc = "await_order"
  /\ IF o_must_cancel
     THEN /\ o_pc' = "closing"
          /\ o_must_cancel' = FALSE
          /\ UNCHANGED <<o_clock, o_listeners, o_events>>
     ELSE /\ \E lat \in LatenciesMs : o_clock' = o_clock + lat
          /\ UNCHANGED o_must_cancel
          /\ \/ /\ o_listeners' = [o_listeners EXCEPT ![Len(o_listeners)] = "stopped"]
                /\ o_pc' = "iterate"
                /\ UNCHANGED o_events
             \/ /\ o_pc' = "closing"
                /\ o_events' = o_events \cup {"order_fail"}
                /\ UNCHANGED o_listeners
             \/ /\ o_pc' = "closing"
                /\ o_events' = o_events \cup {"cancel_order"}
                /\ UNCHANGED o_listeners
  /\ UNCHANGED <<o_target, o_wake, o_woke, o_conn, o_sends, o_targets>>

\* Line 132, the finally block: the connection is closed and new_order
\* returns; console_listener.stop() follows and the process exits.
OrderClose ==
  /\ o_pc = "closing"
  /\ o_conn' = "closed"
  /\ o_pc' = "done"
  /\ UNCHANGED <<o_clock, o_target, o_wake, o_woke, o_listeners, o_must_cancel,
                 o_sends, o_targets, o_events>>

OtherThanOrder == <<predVars, logVars, trackVars, schedVars, histVars, anVars, t_failed, t_handled>>

(***************************************************************************)
(* analyze_latency.py: parsing the capture log                             *)
(***************************************************************************)

\* Bounds of the analysis specification.
MaxLines == 3      \* lines of a free-form log
MaxBuckets == 3    \* bursts (one per bucket) of a generated log
BurstCount == 5    \* records of a large burst

PLOT_PRE_MS == 300      \* PLOT_PRE_SECONDS, in milliseconds
PLOT_POST_MS == 3000    \* PLOT_POST_SECONDS, in milliseconds
BUCKET_MS == 10
MsPerMinute == 60000

\* A text is a sequence of one-character strings.
DigitChars == {"0", "1", "2", "3", "4", "5", "6", "7", "8", "9"}
DigitVal(c) ==
  CASE c = "0" -> 0 [] c = "1" -> 1 [] c = "2" -> 2 [] c = "3" -> 3 [] c = "4" -> 4
    [] c = "5" -> 5 [] c = "6" -> 6 [] c = "7" -> 7 [] c = "8" -> 8 [] c = "9" -> 9

RECURSIVE DecimalValue(_)
DecimalValue(t) ==
  IF t = <<>> THEN 0
  ELSE DecimalValue(SubSeq(t, 1, Len(t) - 1)) * 10 + DigitVal(t[Len(t)])

RECURSIVE Pow10(_)
Pow10(k) == IF k = 0 THEN 1 ELSE 10 * Pow10(k - 1)

\* int(text): the text is made of decimal digits, else ValueError.
int_ok(t) == t # <<>> /\ \A i \in 1..Len(t) : t[i] \in DigitChars
py_int(t) == DecimalValue(t)

\* float(text) for texts over digits, "." and "-": an optional sign, digits
\* with at most one point and at least one digit, else ValueError.
Unsigned(t) == IF t # <<>> /\ t[1] = "-" THEN Tail(t) ELSE t
float_ok(t) ==
  LET u == Unsigned(t)
      points == {i \in 1..Len(u) : u[i] = "."}
  IN  /\ \A i \in 1..Len(u) : u[i] \in DigitChars \cup {"."}
      /\ Cardinality(points) <= 1
      /\ \E i \in 1..Len(u) : u[i] \in DigitChars
\* The value, as a fraction num / den.
py_float(t) ==
  LET u == Unsigned(t)
      digits == SelectSeq(u, LAMBDA c : c \in DigitChars)
      points == {i \in 1..Len(u) : u[i] = "."}
      decimals == IF points = {} THEN 0 ELSE Len(u) - (CHOOSE i \in points : TRUE)
      sign == IF u = t THEN 1 ELSE -1
  IN  [num |-> sign * DecimalValue(digits), den |-> Pow10(decimals)]

\* datetime.strptime(text, '%Y-%m-%d %H:%M:%S,%f'): the fields of the text
\* matched by book_pattern are two, two, two and three digits; a field out
\* of its range raises ValueError. (The date is the same for every line.)
strptime_ok(ts) == ts.h < 24 /\ ts.m < 60 /\ ts.s < 60
\* log_dt.timestamp() * 1000, counted from the midnight of that date.
timestamp_ms(ts) == ((ts.h * 60 + ts.m) * 60 + ts.s) * 1000 + ts.ms

\* A line of the log. kind is the pattern it matches: "stream" for
\* book_pattern (ts is its timestamp, params the dict of the key=value pairs
\* found in its message), "header" for meta_pattern (symbol, the funding_rate
\* text, the interval text), "other" for neither. Unused fields are empty.
NoTs == [h |-> 0, m |-> 0, s |-> 0, ms |-> 0]
NoParams == [e |-> None, E |-> None, b |-> None, a |-> None]
StreamLine(ts, params) ==
  [kind |-> "stream", ts |-> ts, params |-> params, symbol |-> "", rate |-> <<>>, interval |-> ""]
HeaderLine(symbol, rate, interval) ==
  [kind |-> "header", ts |-> NoTs, params |-> NoParams, symbol |-> symbol, rate |-> rate,
   interval |-> interval]
OtherLine ==
  [kind |-> "other", ts |-> NoTs, params |-> NoParams, symbol |-> "", rate |-> <<>>, interval |-> ""]

NoMeta == [symbol |-> None, funding_rate |-> None, interval |-> None]

\* The required keys are there and e is bookTicker (line 39).
HasRequiredKeys(params) ==
  params.e = Some("bookTicker") /\ params.E # None /\ params.b # None /\ params.a # None

\* The conversions of lines 41-46 all succeed.
ConversionsSucceed(line) ==
  /\ strptime_ok(line.ts)
  /\ int_ok(TheValue(line.params.E))
  /\ float_ok(TheValue(line.params.b))
  /\ float_ok(TheValue(line.params.a))

\* The entry appended to book_data (lines 42-48).
BookEntry(line) ==
  [local_ts |-> timestamp_ms(line.ts),
   E |-> py_int(TheValue(line.params.E)),
   b |-> py_float(TheValue(line.params.b)),
   a |-> py_float(TheValue(line.params.a)),
   readable_time |-> line.ts]

\* float(m.group(2)) of line 33 raises: it is outside every try block but
\* the one for FileNotFoundError.
HeaderRaises(line, meta) ==
  meta.symbol = None /\ line.kind = "header" /\ ~float_ok(line.rate)

\* The body of "for line in f" on one line: the state of (book_data, meta)
\* after it.
ParseLine(acc, line) ==
  LET meta1 == IF acc.meta.symbol = None /\ line.kind = "header"
               THEN [symbol |-> Some(line.symbol),
                     funding_rate |-> Some(py_float(line.rate)),
                     interval |-> Some(line.interval)]
               ELSE acc.meta
      book1 == IF /\ line.kind = "stream"
                  /\ HasRequiredKeys(line.params)
                  /\ ConversionsSucceed(line)
               THEN Append(acc.book, BookEntry(line))
               ELSE acc.book
  IN  [acc EXCEPT !.meta = meta1, !.book = book1]

\* A loop over a long list is run half by half, in order: the first half
\* has run to its end (its result x is there) before the second starts.
Ran(x) == x = x

\* parse_logs(filepath): the loop over the lines, in file order; an
\* exception that leaves the loop leaves the function.
RECURSIVE ParseFrom(_, _)
ParseFrom(acc, lines) ==
  IF acc.status = "raised" \/ lines = <<>> THEN acc
  ELSE IF Len(lines) = 1
  THEN IF HeaderRaises(lines[1], acc.meta) THEN [acc EXCEPT !.status = "raised"]
       ELSE ParseLine(acc, lines[1])
  ELSE LET half == Len(lines) \div 2
           mid == ParseFrom(acc, SubSeq(lines, 1, half))
       IN  IF Ran(mid) THEN ParseFrom(mid, SubSeq(lines, half + 1, Len(lines))) ELSE mid

parse_logs(lines) == ParseFrom([status |-> "returned", book |-> <<>>, meta |-> NoMeta], lines)

(***************************************************************************)
(* analyze_latency.py: latency, max-latency record, buckets, flags         *)
(***************************************************************************)

\* Mutant: a negative latency is reported as zero.
latency_clamped(entry) ==
  IF entry.local_ts - entry.E < 0 THEN 0 ELSE entry.local_ts - entry.E

\* latency = entry['local_ts'] - entry['E']
latency(entry) == entry.local_ts - entry.E

\* The loop of lines 173-178: latencies, in the order of book_data.
Latencies(book) == [i \in 1..Len(book) |-> latency(book[i])]
\* timestamps of the same loop: the event times, in milliseconds.
Timestamps(book) == [i \in 1..Len(book) |-> book[i].E]

\* _find_clock_boundaries(timestamps)[0], if the list is not empty: the first
\* whole minute at or after the first timestamp, if not after the last one.
FirstBoundary(timestamps) ==
  LET t_start == timestamps[1]
      t_end == timestamps[Len(timestamps)]
      floor_min == (t_start \div MsPerMinute) * MsPerMinute
      first == IF floor_min < t_start THEN floor_min + MsPerMinute ELSE floor_min
  IN  IF first <= t_end THEN Some(first) ELSE None

\* x_min, x_max of lines 181-187.
PlotWindow(timestamps) ==
  LET anchor == FirstBoundary(timestamps) IN
  IF anchor # None
  THEN [x_min |-> TheValue(anchor) - PLOT_PRE_MS, x_max |-> TheValue(anchor) + PLOT_POST_MS]
  ELSE [x_min |-> timestamps[1], x_max |-> timestamps[Len(timestamps)]]

\* Mutant: on equal latencies the later record replaces the earlier one.
ReplacesMaxOnTie(lat, best) == best = None \/ lat >= TheValue(best).max_latency

\* lat > max_latency, max_latency starting at -inf.
ReplacesMax(lat, best) == best = None \/ lat > TheValue(best).max_latency

\* One turn of the loop of lines 191-193; best is None while
\* max_latency_idx is -1.
MaxStep(i, timestamps, lats, win, best) ==
  IF /\ win.x_min <= timestamps[i] /\ timestamps[i] <= win.x_max
     /\ ReplacesMax(lats[i], best)
  THEN Some([max_latency |-> lats[i], max_latency_idx |-> i])
  ELSE best

\* The turns lo..hi of the loop, in increasing order.
RECURSIVE MaxScan(_, _, _, _, _, _)
MaxScan(lo, hi, timestamps, lats, win, best) ==
  IF lo > hi THEN best
  ELSE IF lo = hi THEN MaxStep(lo, timestamps, lats, win, best)
  ELSE LET half == (lo + hi) \div 2
           mid == MaxScan(lo, half, timestamps, lats, win, best)
       IN  IF Ran(mid) THEN MaxScan(half + 1, hi, timestamps, lats, win, mid) ELSE mid

FindMaxLatency(book, lats) ==
  MaxScan(1, Len(lats), Timestamps(book), lats, PlotWindow(Timestamps(book)), None)

\* _bucket_key: float(int(ts_ms // bucket_ms) * bucket_ms)
_bucket_key(ts_ms, bucket_ms) == (ts_ms \div bucket_ms) * bucket_ms

\* sorted(d): the keys of a dict in increasing order.
SortedKeys(d) == SortSeq(DictKeys(d), LAMBDA x, y : x < y)

\* compute_message_rate: counts[_bucket_key(entry['E'])] += 1 over book_data,
\* then the sorted keys and their counts.
RECURSIVE CountInto(_, _, _)
CountInto(counts, book, bucket_ms) ==
  IF book = <<>> THEN counts
  ELSE IF Len(book) = 1
  THEN LET k == _bucket_key(book[1].E, bucket_ms)
           c == IF DictHas(counts, k) THEN TheValue(DictGet(counts, k)) ELSE 0
       IN  DictSet(counts, k, c + 1)
  ELSE LET half == Len(book) \div 2
           mid == CountInto(counts, SubSeq(book, 1, half), bucket_ms)
       IN  IF Ran(mid) THEN CountInto(mid, SubSeq(book, half + 1, Len(book)), bucket_ms) ELSE mid

compute_message_rate(book, bucket_ms) ==
  LET counts == CountInto(<<>>, book, bucket_ms)
      sorted_keys == SortedKeys(counts)
  IN  [keys |-> sorted_keys,
       counts |-> [i \in 1..Len(sorted_keys) |-> TheValue(DictGet(counts, sorted_keys[i]))]]

\* bucket_latencies[_bucket_key(entry['E'])].append(lat) over
\* zip(book_data, latencies).
\* The pairs lo..hi of the zip, in increasing order.
RECURSIVE AppendInto(_, _, _, _, _, _)
AppendInto(bl, lo, hi, book, lats, bucket_ms) ==
  IF lo > hi THEN bl
  ELSE IF lo = hi
  THEN LET k == _bucket_key(book[lo].E, bucket_ms)
           l == IF DictHas(bl, k) THEN TheValue(DictGet(bl, k)) ELSE <<>>
       IN  DictSet(bl, k, Append(l, lats[lo]))
  ELSE LET half == (lo + hi) \div 2
           mid == AppendInto(bl, lo, half, book, lats, bucket_ms)
       IN  IF Ran(mid) THEN AppendInto(mid, half + 1, hi, book, lats, bucket_ms) ELSE mid

\* The length of zip(book_data, latencies).
ZipLen(book, lats) == IF Len(book) <= Len(lats) THEN Len(book) ELSE Len(lats)

\* The sum of a list of integers (pairwise, as numpy adds).
RECURSIVE SumSeq(_)
SumSeq(q) ==
  IF q = <<>> THEN 0
  ELSE IF Len(q) = 1 THEN q[1]
  ELSE LET half == Len(q) \div 2
       IN  SumSeq(SubSeq(q, 1, half)) + SumSeq(SubSeq(q, half + 1, Len(q)))

\* Mutant: the first latency of the bucket is taken for its maximum.
first_of(q) == q[1]

\* max(lats) of a non-empty list.
MaxSeq(q) == CHOOSE m \in SeqToSet(q) : \A x \in SeqToSet(q) : x <= m

\* Fractions num / den, den > 0.
Frac(n, d) == [num |-> n, den |-> d]
FracLess(x, y) == x.num * y.den < y.num * x.den
FracEq(x, y) == x.num * y.den = y.num * x.den

\* np.mean of a list of numbers.
np_mean(q) == Frac(SumSeq(q), Len(q))

\* np.median of a list of fractions: the middle one of the sorted list, or
\* the mean of the two middle ones.
np_median(fracs) ==
  LET sorted == SortSeq(fracs, FracLess)
      n == Len(sorted)
  IN  IF n % 2 = 1 THEN sorted[(n + 1) \div 2]
      ELSE LET x == sorted[n \div 2]
               y == sorted[n \div 2 + 1]
           IN  Frac(x.num * y.den + y.num * x.den, 2 * x.den * y.den)

\* Mutant: the latency flag needs twice the baseline.
high_lat_twice(mean_l, baseline) == mean_l.num * baseline.den > 2 * baseline.num * mean_l.den

\* mean_l > baseline * 1.2
high_lat(mean_l, baseline) == 5 * mean_l.num * baseline.den > 6 * baseline.num * mean_l.den
\* Mutant: the count flag compares with twice the number of records.
high_count_of_total(count, global_count_mean) ==
  count * global_count_mean.den > 2 * global_count_mean.num * global_count_mean.den

\* count > global_count_mean * 2
high_count(count, global_count_mean) ==
  count * global_count_mean.den > 2 * global_count_mean.num

\* Lines 136-142.
FlagOf(hl, hc) ==
  IF hl /\ hc THEN "HIGH-COUNT + HIGH-LAT"
  ELSE IF hl THEN "HIGH-LAT only"
  ELSE IF hc THEN "HIGH-COUNT only"
  ELSE ""

\* The table of print_message_rate_stats: one row per sorted key.
RateTable(bl) ==
  LET sorted_keys == SortedKeys(bl)
      all_means == [i \in 1..Len(bl) |-> np_mean(bl[i][2])]
      baseline == np_median(all_means)
      global_count_mean == np_mean([i \in 1..Len(bl) |-> Len(bl[i][2])])
  IN  [i \in 1..Len(sorted_keys) |->
         LET lats == TheValue(DictGet(bl, sorted_keys[i]))
             mean_l == np_mean(lats)
         IN  [key |-> sorted_keys[i], count |-> Len(lats), max_l |-> MaxSeq(lats),
              mean_l |-> mean_l,
              flag |-> FlagOf(high_lat(mean_l, baseline),
                              high_count(Len(lats), global_count_mean))]]

\* Greatest common divisor and least common multiple of naturals.
RECURSIVE Gcd(_, _)
Gcd(x, y) == IF y = 0 THEN x ELSE Gcd(y, x % y)
Lcm(x, y) == (x \div Gcd(x, y)) * y
Abs(x) == IF x < 0 THEN -x ELSE x

\* A fraction in lowest terms.
Reduced(f) ==
  LET g == Gcd(Abs(f.num), f.den) IN Frac(f.num \div g, f.den \div g)

RECURSIVE LcmOfDens(_)
LcmOfDens(fracs) ==
  IF fracs = <<>> THEN 1 ELSE Lcm(Head(fracs).den, LcmOfDens(Tail(fracs)))

\* The fractions brought to a common denominator: their numerators (a
\* positive scaling of the series, which leaves the coefficient unchanged).
Scaled(fracs) ==
  LET red == [i \in 1..Len(fracs) |-> Reduced(fracs[i])]
      l == LcmOfDens(red)
  IN  [i \in 1..Len(red) |-> red[i].num * (l \div red[i].den)]

\* n * sum(x * y) - sum(x) * sum(y): n * n times the covariance of x and y.
CoMoment(x, y) ==
  Len(x) * SumSeq([i \in 1..Len(x) |-> x[i] * y[i]]) - SumSeq(x) * SumSeq(y)

\* b * c2 > a * v for naturals, computed without leaving 32 bits.
ScaledGreater(b, c2, a, v) == c2 - a * (v \div b) > (a * (v % b)) \div b

\* Lines 153-158 on corr = cov / sqrt(vx * vy): abs(corr) > 0.6 is
\* 25 * cov^2 > 9 * vx * vy, abs(corr) > 0.3 is 100 * cov^2 > 9 * vx * vy; a
\* zero variance makes corr nan, and every comparison with nan is false.
verdict_of(cov, vx, vy) ==
  IF vx = 0 \/ vy = 0 THEN "weak"
  ELSE IF ScaledGreater(25, cov * cov, 9, vx * vy) THEN "strong"
  ELSE IF ScaledGreater(100, cov * cov, 9, vx * vy) THEN "moderate"
  ELSE "weak"

\* The correlation summary of lines 147-158 for the rows of the table.
Correlation(rows) ==
  LET counts_arr == [i \in 1..Len(rows) |-> rows[i].count]
      mean_lats == Scaled([i \in 1..Len(rows) |-> rows[i].mean_l])
      cov == CoMoment(counts_arr, mean_lats)
      vx == CoMoment(counts_arr, counts_arr)
      vy == CoMoment(mean_lats, mean_lats)
  IN  IF Len(rows) > 1
      THEN [nan |-> vx = 0 \/ vy = 0, cov |-> cov, vx |-> vx, vy |-> vy,
            verdict |-> verdict_of(cov, vx, vy)]
      ELSE [nan |-> TRUE, cov |-> 0, vx |-> 0, vy |-> 0, verdict |-> "weak"]

\* print_message_rate_stats(book_data, latencies, timestamps)
print_message_rate_stats(book, lats, bucket_ms) ==
  LET rows == RateTable(AppendInto(<<>>, 1, ZipLen(book, lats), book, lats, bucket_ms))
  IN  [rows |-> rows, corr |-> Correlation(rows)]

(***************************************************************************)
(* The logs analysed                                                       *)
(***************************************************************************)

\* The decimal text of a natural, and the timestamp fields of an instant, as
\* the capture logger writes them.
DigitOf(d) == CHOOSE c \in DigitChars : DigitVal(c) = d
RECURSIVE TextOf(_)
TextOf(n) == IF n < 10 THEN <<DigitOf(n)>> ELSE Append(TextOf(n \div 10), DigitOf(n % 10))
TsOf(t) == [h |-> t \div 3600000, m |-> (t \div MsPerMinute) % 60,
            s |-> (t \div 1000) % 60, ms |-> t % 1000]

Price == <<"1", ".", "5">>
\* A book-ticker line written at instant local for the event time E.
TickerLine(local, E) ==
  StreamLine(TsOf(local), [e |-> Some("bookTicker"), E |-> Some(TextOf(E)),
                           b |-> Some(Price), a |-> Some(Price)])

\* Free-form lines: well-formed book-ticker lines (one of negative latency,
\* one after the plot window), lines of another event, without a key, with
\* a malformed number or timestamp, header lines, and a line of neither kind.
GoodLines ==
  {TickerLine(59950, 59960), TickerLine(60005, 60000), TickerLine(60025, 60020),
   TickerLine(63600, 63500)}
BadLines ==
  {StreamLine(TsOf(60005), [e |-> Some("aggTrade"), E |-> Some(TextOf(60000)),
                            b |-> Some(Price), a |-> Some(Price)]),
   StreamLine(TsOf(60005), [e |-> Some("bookTicker"), E |-> Some(TextOf(60000)),
                            b |-> None, a |-> Some(Price)]),
   StreamLine(TsOf(60005), [e |-> Some("bookTicker"), E |-> Some(<<"6", "x">>),
                            b |-> Some(Price), a |-> Some(Price)]),
   StreamLine(TsOf(60005), [e |-> Some("bookTicker"), E |-> Some(TextOf(60000)),
                            b |-> Some(<<"1", ".", ".">>), a |-> Some(Price)]),
   StreamLine([h |-> 0, m |-> 0, s |-> 75, ms |-> 5],
              [e |-> Some("bookTicker"), E |-> Some(TextOf(60000)),
               b |-> Some(Price), a |-> Some(Price)])}
HeaderLines ==
  {HeaderLine("A", <<"-", "0", ".", "0", "0", "4">>, "8"),
   HeaderLine("A", <<"1", ".", "2", ".", "3">>, "8")}
FreeLines == GoodLines \cup BadLines \cup HeaderLines \cup {OtherLine}
FreeLogs == UNION {[1..n -> FreeLines] : n \in 0..MaxLines}

\* Generated logs: one burst of records per bucket, buckets side by side
\* from BurstBase on. A burst has count records; the j-th has the event time
\* of its bucket plus (j - 1) mod BUCKET_MS and the latency lat + (j - 1) * step.
BurstBase == 59990
BurstShapes == [count : {1, BurstCount}, lat : {-3, 5, 80}, step : {3}]
BurstLines(k, shape) ==
  [j \in 1..shape.count |->
     LET E == BurstBase + (k - 1) * BUCKET_MS + ((j - 1) % BUCKET_MS)
     IN  TickerLine(E + shape.lat + (j - 1) * shape.step, E)]
RECURSIVE BurstLog(_, _)
BurstLog(shapes, k) ==
  IF k > Len(shapes) THEN <<>> ELSE BurstLines(k, shapes[k]) \o BurstLog(shapes, k + 1)
BurstLogs == {BurstLog(shapes, 1) : shapes \in UNION {[1..n -> BurstShapes] : n \in 1..MaxBuckets}}

\* The correlation scenario: bucket counts 1, 1, 1, 50, 1, 1 with bucket mean
\* latencies 5, 5, 5, 80, 5, 5.
ScenarioCounts == <<1, 1, 1, 50, 1, 1>>
ScenarioMeans == <<5, 5, 5, 80, 5, 5>>
ScenarioLog ==
  BurstLog([k \in 1..Len(ScenarioCounts) |->
              [count |-> ScenarioCounts[k], lat |-> ScenarioMeans[k], step |-> 0]], 1)

(***************************************************************************)
(* analyze_latency.py run on one file (lines 338-343)                      *)
(***************************************************************************)

AnIdle ==
  /\ a_log = <<>> /\ a_pc = "off" /\ a_book = <<>> /\ a_meta = NoMeta
  /\ a_latencies = <<>> /\ a_max = None /\ a_table = <<>> /\ a_corr = None /\ a_rate = None

AnInit ==
  /\ a_log \in FreeLogs \cup BurstLogs \cup {ScenarioLog}
  /\ a_pc = "start" /\ a_book = <<>> /\ a_meta = NoMeta
  /\ a_latencies = <<>> /\ a_max = None /\ a_table = <<>> /\ a_corr = None /\ a_rate = None

\* book_data, meta = parse_logs(target)
ParseLogs ==
  /\ a_pc = "start"
  /\ LET res == parse_logs(a_log) IN
       IF res.status = "raised"
       THEN a_pc' = "raised" /\ UNCHANGED <<a_book, a_meta>>
       ELSE a_pc' = "parsed" /\ a_book' = res.book /\ a_meta' = res.meta
  /\ UNCHANGED <<a_log, a_latencies, a_max, a_table, a_corr, a_rate>>

\* analyze_and_plot: if not book_data: return
AnalyzeNothing ==
  /\ a_pc = "parsed" /\ a_book = <<>>
  /\ a_pc' = "done"
  /\ UNCHANGED <<a_log, a_book, a_meta, a_latencies, a_max, a_table, a_corr, a_rate>>

\* Lines 171-178.
AnalyzeLatencies ==
  /\ a_pc = "parsed" /\ a_book # <<>>
  /\ a_latencies' = Latencies(a_book)
  /\ a_pc' = "latencies"
  /\ UNCHANGED <<a_log, a_book, a_meta, a_max, a_table, a_corr, a_rate>>

\* Lines 180-202.
AnalyzeMax ==
  /\ a_pc = "latencies"
  /\ a_max' = FindMaxLatency(a_book, a_latencies)
  /\ a_pc' = "max"
  /\ UNCHANGED <<a_log, a_book, a_meta, a_latencies, a_table, a_corr, a_rate>>

\* Line 205.
AnalyzeStats ==
  /\ a_pc = "max"
  /\ LET out == print_message_rate_stats(a_book, a_latencies, BUCKET_MS) IN
       a_table' = out.rows /\ a_corr' = Some(out.corr)
  /\ a_pc' = "stats"
  /\ UNCHANGED <<a_log, a_book, a_meta, a_latencies, a_max, a_rate>>

\* Line 208 (the plot that follows is not modelled).
AnalyzeRate ==
  /\ a_pc = "stats"
  /\ a_rate' = Some(compute_message_rate(a_book, BUCKET_MS))
  /\ a_pc' = "done"
  /\ UNCHANGED <<a_log, a_book, a_meta, a_latencies, a_max, a_table, a_corr>>

OtherThanAn == <<predVars, logVars, trackVars, schedVars, histVars, orderVars, t_failed, t_handled>>

Init == SchedInitFor(MaxTicks) /\ PredIdle /\ LogIdle /\ OrderIdle /\ AnIdle
Next ==
  \/ Advance /\ UNCHANGED <<predVars, logVars, orderVars, anVars, t_failed, t_handled>>
  \/ HandleMarkPrice /\ UNCHANGED <<predVars, logVars, orderVars, anVars, t_failed, t_handled>>
  \/ FetchCall /\ UNCHANGED <<predVars, logVars, orderVars, anVars, t_failed, t_handled>>
  \/ FetchStore /\ UNCHANGED <<predVars, logVars, orderVars, anVars, t_failed, t_handled>>
  \/ FetchCheck /\ UNCHANGED <<predVars, logVars, orderVars, anVars, t_failed, t_handled>>
  \/ FetchAlias /\ UNCHANGED <<predVars, logVars, orderVars, anVars, t_failed, t_handled>>
  \/ SchedulerStart /\ UNCHANGED <<predVars, logVars, orderVars, anVars, t_failed, t_handled>>
  \/ SchedulerWaitData /\ UNCHANGED <<predVars, logVars, orderVars, anVars, t_failed, t_handled>>
  \/ SchedulerEvaluate /\ UNCHANGED <<predVars, logVars, orderVars, anVars, t_failed, t_handled>>
  \/ SessionFinish /\ UNCHANGED <<predVars, logVars, orderVars, anVars, t_failed, t_handled>>
  \/ GatherDone /\ UNCHANGED <<predVars, logVars, orderVars, anVars, t_failed, t_handled>>
  \/ GatherRaises /\ UNCHANGED <<predVars, logVars, orderVars, anVars, t_failed, t_handled>>
Spec == Init /\ [][Next]_vars

\* The same program over a longer window, fed the rates of one symbol.
InitTiming == SchedInitFor(TimingTicks) /\ PredIdle /\ LogIdle /\ OrderIdle /\ AnIdle
NextTiming ==
  \/ Advance /\ UNCHANGED <<predVars, logVars, orderVars, anVars, t_failed, t_handled>>
  \/ HandleMarkPriceTiming /\ UNCHANGED <<predVars, logVars, orderVars, anVars, t_failed, t_handled>>
  \/ FetchCall /\ UNCHANGED <<predVars, logVars, orderVars, anVars, t_failed, t_handled>>
  \/ FetchStore /\ UNCHANGED <<predVars, logVars, orderVars, anVars, t_failed, t_handled>>
  \/ FetchCheck /\ UNCHANGED <<predVars, logVars, orderVars, anVars, t_failed, t_handled>>
  \/ FetchAlias /\ UNCHANGED <<predVars, logVars, orderVars, anVars, t_failed, t_handled>>
  \/ SchedulerStart /\ UNCHANGED <<predVars, logVars, orderVars, anVars, t_failed, t_handled>>
  \/ SchedulerWaitData /\ UNCHANGED <<predVars, logVars, orderVars, anVars, t_failed, t_handled>>
  \/ SchedulerEvaluate /\ UNCHANGED <<predVars, logVars, orderVars, anVars, t_failed, t_handled>>
  \/ SessionFinish /\ UNCHANGED <<predVars, logVars, orderVars, anVars, t_failed, t_handled>>
  \/ GatherDone /\ UNCHANGED <<predVars, logVars, orderVars, anVars, t_failed, t_handled>>
  \/ GatherRaises /\ UNCHANGED <<predVars, logVars, orderVars, anVars, t_failed, t_handled>>
SpecTiming == InitTiming /\ [][NextTiming]_vars

\* The scheduler and its sessions alone: the rates of both symbols are
\* known and both intervals cached, the scheduler is at the head of its
\* poll loop shortly before a trigger second.
SessionRates ==
  {<<<<"A", -4>>, <<"B", -4>>>>, <<<<"B", -4>>, <<"A", -4>>>>, <<<<"A", -3>>, <<"B", -4>>>>}
SessionsInit ==
  /\ clock \in StartClocks /\ ticks_left = TimingTicks
  /\ funding_rates \in SessionRates
  /\ cached_intervals = [x \in Symbols |-> Some(ExchangeInterval(x))]
  /\ most_negative_symbol = MinKey(funding_rates)
  /\ cached_interval = cached_intervals[most_negative_symbol]
  /\ _last_refresh_minute = None /\ fetches = EmptyBag
  /\ funding_conn = "open" /\ sched_pc = "poll" /\ wake = clock /\ sessions = <<>>
  /\ fire_log = <<>> /\ evals_in_fired_second = 0
  /\ elig = {} /\ started = {} /\ missed = {} /\ served = {}
  /\ latest = [x \in Symbols |-> DictGet(funding_rates, x)]
  /\ t_failed = {} /\ t_handled = {}

InitSessions == SessionsInit /\ PredIdle /\ LogIdle /\ OrderIdle /\ AnIdle
NextSessions ==
  \/ Advance /\ UNCHANGED <<predVars, logVars, orderVars, anVars, t_failed, t_handled>>
  \/ SchedulerEvaluate /\ UNCHANGED <<predVars, logVars, orderVars, anVars, t_failed, t_handled>>
  \/ SessionFinish /\ UNCHANGED <<predVars, logVars, orderVars, anVars, t_failed, t_handled>>
  \/ GatherDone /\ UNCHANGED <<predVars, logVars, orderVars, anVars, t_failed, t_handled>>
  \/ GatherRaises /\ UNCHANGED <<predVars, logVars, orderVars, anVars, t_failed, t_handled>>
SpecSessions == InitSessions /\ [][NextSessions]_vars

InitPred == PredInit /\ LogIdle /\ SchedIdle /\ OrderIdle /\ AnIdle
NextPred == EvalPreSettlement /\ UNCHANGED <<logVars, trackVars, schedVars, histVars, orderVars, anVars, t_failed, t_handled>>
SpecPred == InitPred /\ [][NextPred]_vars

InitLog == LogInit /\ PredIdle /\ SchedIdle /\ OrderIdle /\ AnIdle
NextLog ==
  \/ LogTick /\ UNCHANGED <<predVars, trackVars, schedVars, histVars, orderVars, anVars, t_failed, t_handled>>
  \/ ListenerMonitor /\ UNCHANGED <<predVars, trackVars, schedVars, histVars, orderVars, anVars, t_failed, t_handled>>
  \/ SessionSetup /\ UNCHANGED <<predVars, trackVars, schedVars, histVars, orderVars, anVars, t_failed, t_handled>>
  \/ SessionConnect /\ UNCHANGED <<predVars, trackVars, schedVars, histVars, orderVars, anVars, t_failed, t_handled>>
  \/ SessionSubscribe /\ UNCHANGED <<predVars, trackVars, schedVars, histVars, orderVars, anVars, t_failed, t_handled>>
  \/ SessionMessage /\ UNCHANGED <<predVars, trackVars, schedVars, histVars, orderVars, anVars, t_failed, t_handled>>
  \/ SessionSleepEnds /\ UNCHANGED <<predVars, trackVars, schedVars, histVars, orderVars, anVars, t_failed, t_handled>>
  \/ SessionUnsubscribeFails /\ UNCHANGED <<predVars, trackVars, schedVars, histVars, orderVars, anVars, t_failed, t_handled>>
  \/ SessionUnsubscribe /\ UNCHANGED <<predVars, trackVars, schedVars, histVars, orderVars, anVars, t_failed, t_handled>>
  \/ ListenerStopJoin /\ UNCHANGED <<predVars, trackVars, schedVars, histVars, orderVars, anVars, t_failed, t_handled>>
SpecLog == InitLog /\ [][NextLog]_vars

\* The session under fair scheduling: the clock moves, the worker thread
\* runs, every await of the coroutine completes (with a result or an
\* error), and a sleep whose timer is due resumes. A cancellation may
\* happen but is never forced.
OtherThanLog == <<predVars, trackVars, schedVars, histVars, orderVars, anVars, t_failed, t_handled>>
SleepTimerFires == SessionSleepEnds /\ l_exc' = l_exc
UnsubscribeCompletes ==
  \/ SessionUnsubscribeFails
  \/ SessionUnsubscribe /\ l_exc' = l_exc
FairLog ==
  /\ WF_vars(LogTick /\ UNCHANGED OtherThanLog)
  /\ WF_vars(ListenerMonitor /\ UNCHANGED OtherThanLog)
  /\ WF_vars(SessionSetup /\ UNCHANGED OtherThanLog)
  /\ WF_vars(SessionConnect /\ UNCHANGED OtherThanLog)
  /\ WF_vars(SessionSubscribe /\ UNCHANGED OtherThanLog)
  /\ WF_vars(SleepTimerFires /\ UNCHANGED OtherThanLog)
  /\ WF_vars(UnsubscribeCompletes /\ UNCHANGED OtherThanLog)
  /\ WF_vars(ListenerStopJoin /\ UNCHANGED OtherThanLog)
SpecLogLive == InitLog /\ [][NextLog]_vars /\ FairLog

InitOrder == OrderInit /\ PredIdle /\ LogIdle /\ SchedIdle /\ AnIdle
NextOrder ==
  \/ OrderConnect /\ UNCHANGED OtherThanOrder
  \/ OrderIterate /\ UNCHANGED OtherThanOrder
  \/ OrderSleepEnds /\ UNCHANGED OtherThanOrder
  \/ OrderCancelInSleep /\ UNCHANGED OtherThanOrder
  \/ OrderSpin /\ UNCHANGED OtherThanOrder
  \/ OrderCancelInSpin /\ UNCHANGED OtherThanOrder
  \/ OrderFire /\ UNCHANGED OtherThanOrder
  \/ OrderResponse /\ UNCHANGED OtherThanOrder
  \/ OrderClose /\ UNCHANGED OtherThanOrder
SpecOrder == InitOrder /\ [][NextOrder]_vars

\* The tracker alone: the stream is open and delivers messages of up to two
\* entries; the clock moves through the minutes around a refresh window.
MaxTrackFetches == 2    \* interval fetches in the executor at one time
\* Entries with both attributes, one without a symbol, one without a rate.
TrackEntries ==
  {e \in Entries : (e.s # None /\ e.r # None) \/ (e.s = None /\ e.r = Some(-4))
                    \/ (e.s = Some("A") /\ e.r = None)}
Messages2 == [1..2 -> TrackEntries]
HandleMarkPriceTrack == HandleMarkPriceFrom(Messages2, MaxTrackFetches)

TrackClocks == {ClockAt(0, 49, 59), ClockAt(0, 50, 0)}
TrackClock0 == ClockAt(0, 49, 59)

TrackInit ==
  /\ clock = TrackClock0 /\ ticks_left = 0
  /\ funding_rates = <<>> /\ cached_intervals = [x \in Symbols |-> None]
  /\ cached_interval = None /\ most_negative_symbol = ""
  /\ _last_refresh_minute = None /\ fetches = EmptyBag
  /\ funding_conn = "open" /\ sched_pc = "off" /\ wake = 0 /\ sessions = <<>>
  /\ fire_log = <<>> /\ evals_in_fired_second = 0
  /\ elig = {} /\ started = {} /\ missed = {} /\ served = {}
  /\ latest = [x \in Symbols |-> None] /\ t_failed = {} /\ t_handled = {}

\* Time passes between two messages.
TrackTick ==
  /\ \E t \in TrackClocks :
       /\ t > clock
       /\ \A u \in TrackClocks : u > clock => t <= u
       /\ clock' = t
  /\ UNCHANGED <<trackVars, ticks_left, funding_conn, sched_pc, wake, sessions, histVars>>

\* The executor's tasks of symbol x about to call, and holding a result.
CallTasks(tasks, x) == CopiesIn([symbol |-> x, stage |-> "call", interval |-> None], tasks)
StoreTasks(tasks, x) ==
  CopiesIn([symbol |-> x, stage |-> "store", interval |-> Some(ExchangeInterval(x))], tasks)
TasksOf(tasks, x) == {w \in BagToSet(tasks) : w.symbol = x}

\* In this step _get_funding_interval returned None for symbol x.
FetchFailsFor(x) ==
  /\ CallTasks(fetches', x) < CallTasks(fetches, x)
  /\ StoreTasks(fetches', x) = StoreTasks(fetches, x)

\* FetchCall, with the latest failure remembered: the symbol and what the
\* cache held for it when the fetch failed.
TrackFetchCall ==
  /\ FetchCall
  /\ LET failures == {[symbol |-> x, had |-> cached_intervals[x]] :
                        x \in {y \in Symbols : FetchFailsFor(y)}}
     IN  t_failed' = IF failures = {} THEN t_failed ELSE failures

OtherThanTrack == <<predVars, logVars, orderVars, anVars>>
InitTrack == TrackInit /\ PredIdle /\ LogIdle /\ OrderIdle /\ AnIdle
NextTrack ==
  \/ TrackTick /\ UNCHANGED <<OtherThanTrack, t_failed, t_handled>>
  \/ HandleMarkPriceTrack /\ UNCHANGED <<OtherThanTrack, t_failed, t_handled>>
  \/ TrackFetchCall /\ UNCHANGED <<OtherThanTrack, t_handled>>
  \/ FetchStore /\ UNCHANGED <<OtherThanTrack, t_failed, t_handled>>
  \/ FetchCheck /\ UNCHANGED <<OtherThanTrack, t_failed, t_handled>>
  \/ FetchAlias /\ UNCHANGED <<OtherThanTrack, t_failed, t_handled>>
SpecTrack == InitTrack /\ [][NextTrack]_vars

\* The tracker across refresh windows: single-entry messages arrive before,
\* in and after minute 50 of an hour, in the next hour's minute 50 and in
\* the same hour's minute 50 one day later.
RefreshClocks ==
  {ClockAt(0, 49, 59), ClockAt(0, 50, 0), ClockAt(0, 50, 1),
   ClockAt(1, 50, 0), ClockAt(HoursPerDay, 50, 0)}
RefreshTick ==
  /\ \E t \in RefreshClocks :
       /\ t > clock
       /\ \A u \in RefreshClocks : u > clock => t <= u
       /\ clock' = t
  /\ UNCHANGED <<trackVars, ticks_left, funding_conn, sched_pc, wake, sessions, histVars>>

\* The hour of instant t, counted from 00:00 of the first day.
AbsHour(t) == t \div (3600 * TicksPerSec)

\* _handle_mark_price, with the hours remembered in whose minute 50 it ran.
HandleMarkPriceRefresh ==
  /\ HandleMarkPriceFrom(Messages1, MaxTrackFetches)
  /\ t_handled' = IF MinuteOf(clock) = 50 THEN t_handled \cup {AbsHour(clock)}
                  ELSE t_handled

InitRefresh == TrackInit /\ PredIdle /\ LogIdle /\ OrderIdle /\ AnIdle
NextRefresh ==
  \/ RefreshTick /\ UNCHANGED <<OtherThanTrack, t_failed, t_handled>>
  \/ HandleMarkPriceRefresh /\ UNCHANGED <<OtherThanTrack, t_failed>>
  \/ FetchCall /\ UNCHANGED <<OtherThanTrack, t_failed, t_handled>>
  \/ FetchStore /\ UNCHANGED <<OtherThanTrack, t_failed, t_handled>>
  \/ FetchCheck /\ UNCHANGED <<OtherThanTrack, t_failed, t_handled>>
  \/ FetchAlias /\ UNCHANGED <<OtherThanTrack, t_failed, t_handled>>
SpecRefresh == InitRefresh /\ [][NextRefresh]_vars

\* The analysis of one capture log.
InitAnalyze == AnInit /\ PredIdle /\ LogIdle /\ SchedIdle /\ OrderIdle
NextAnalyze ==
  \/ ParseLogs /\ UNCHANGED OtherThanAn
  \/ AnalyzeNothing /\ UNCHANGED OtherThanAn
  \/ AnalyzeLatencies /\ UNCHANGED OtherThanAn
  \/ AnalyzeMax /\ UNCHANGED OtherThanAn
  \/ AnalyzeStats /\ UNCHANGED OtherThanAn
  \/ AnalyzeRate /\ UNCHANGED OtherThanAn
SpecAnalyze == InitAnalyze /\ [][NextAnalyze]_vars

(***************************************************************************)
(* Properties of the settlement predicate (SpecPred)                       *)
(***************************************************************************)

NextHourOf(now) == (now.hour + 1) % HoursPerDay
AtTriggerSecond(now) == now.minute = 59 /\ now.second = 30

\* C1, as stated: for a non-null interval the predicate holds iff the time is
\* hh:59:30 and the next hour is in {0, interval, 2*interval, ...} taken
\* mod 24; a null interval never fires.
C1_OriginalModuloSet ==
  p_pc = "done" =>
    (p_result <=>
       /\ p_interval # None
       /\ AtTriggerSecond(p_now)
       /\ \E k \in 0..(HoursPerDay - 1) :
            (k * TheValue(p_interval)) % HoursPerDay = NextHourOf(p_now))

\* C1, amended: the predicate holds iff the interval is a positive integer,
\* the time is hh:59:30 and the next hour is a multiple of the interval
\* (the multiples below 24, not reduced mod 24); a null, zero or negative
\* interval never fires.
C1_MultiplesBelow24 ==
  p_pc = "done" =>
    (p_result <=>
       /\ p_interval # None
       /\ \E v \in p_interval : v > 0 /\ NextHourOf(p_now) % v = 0
       /\ AtTriggerSecond(p_now))

\* C1 witness: interval 5 at 19:59:30 fires (20 is a multiple of 5).
C1_Witness ==
  /\ p_pc = "done" /\ p_result
  /\ p_interval = Some(5)
  /\ p_now = [hour |-> 19, minute |-> 59, second |-> 30]

\* C10: interval 8 does not trigger at 00:59:30 and triggers at 23:59:30;
\* interval 4 triggers at 15:59:30.
C10_PredicateCases ==
  p_pc = "done" =>
    /\ (p_interval = Some(8) /\ p_now = [hour |-> 0, minute |-> 59, second |-> 30]) => ~p_result
    /\ (p_interval = Some(8) /\ p_now = [hour |-> 23, minute |-> 59, second |-> 30]) => p_result
    /\ (p_interval = Some(4) /\ p_now = [hour |-> 15, minute |-> 59, second |-> 30]) => p_result

\* C10 witness: the 23:59:30 case with interval 8 has been evaluated.
C10_Witness ==
  /\ p_pc = "done" /\ p_result
  /\ p_interval = Some(8)
  /\ p_now = [hour |-> 23, minute |-> 59, second |-> 30]

(***************************************************************************)
(* Properties of the capture logger and the session (SpecLog)              *)
(***************************************************************************)

StreamLines == {i \in 1..Len(l_file) : l_file[i].msg.kind = "stream"}
SessionStopped == l_stopmark > 0 /\ l_thread = "exited"

\* C3: the timestamp of every persisted stream-message line is the wall
\* clock (to the millisecond) at which capture_stream_record was called for
\* that message, however late the worker writes the line.
C3_ArrivalTimestampKept ==
  \A i \in StreamLines :
    \E j \in 1..Len(l_passed) :
      /\ l_passed[j].msg = l_file[i].msg
      /\ LineMs(l_file[i]) = l_passed[j].at \div UsPerMs

\* C3 witness: a stream line written in a later second than its arrival.
C3_Witness ==
  \E i \in StreamLines :
    /\ l_file[i].late
    /\ l_file[i].sec < l_clock \div UsPerSec

\* C4: the persisted lines are, in order, the records handed to the logger.
C4_FifoOrder ==
  /\ Len(l_file) <= Len(l_passed)
  /\ \A i \in 1..Len(l_file) : l_file[i].msg = l_passed[i].msg

\* C4 witness: MaxMsgs stream messages persisted while the worker lagged
\* (a line written late) and more records wait in the queue.
C4_Witness ==
  /\ Cardinality(StreamLines) >= 2
  /\ \E i \in StreamLines : l_file[i].late
  /\ l_queue # <<>>

\* C5: once listener.stop() has returned, the worker thread has ended and
\* every record handed to the logger before stop() was called is persisted.
C5_StopFlushes ==
  (l_pc = "returned" /\ l_stopmark > 0) =>
    /\ l_thread = "exited"
    /\ Len(l_file) >= l_stopmark
    /\ \A i \in 1..l_stopmark : l_file[i].msg = l_passed[i].msg

\* C5 witness: stop() returned after a session that received stream
\* messages, all of them on file.
C5_Witness ==
  /\ l_pc = "returned" /\ l_stopmark > 0
  /\ l_nmsg >= 2
  /\ Cardinality(StreamLines) >= 2

ListedExits == {"timeout", "connect_fail", "subscribe_fail", "unsub_fail", "cancel_sleep"}

\* C6: when run_logging_session has returned by a normal timeout, a failed
\* connection or subscription, a failed unsubscribe or a cancellation while
\* sleeping, its listener has been stopped.
C6_StopOnEveryListedExit ==
  (l_pc = "returned" /\ l_events # {} /\ l_events \subseteq ListedExits) => SessionStopped

\* C6 witness: returned after a cancellation in the sleep followed by a
\* failing unsubscribe, listener stopped.
C6_Witness ==
  /\ l_pc = "returned"
  /\ l_events = {"cancel_sleep", "unsub_fail"}
  /\ SessionStopped

CancelExits == {"cancel_connect", "cancel_subscribe", "cancel_sleep", "cancel_unsub"}

Fires == sched_pc # "gather" /\ sched_pc' = "gather"
SessionSymbols(ss) == {ss[i].symbol : i \in 1..Len(ss)}

\* C2: a symbol with no entry of its own in the interval cache is never
\* given a capture session (own is the cache entry at the firing tick).
C2_UnknownIntervalNeverFires ==
  \A i \in 1..Len(fire_log) : fire_log[i].own # None

\* C8: at a firing tick the sessions started are exactly the qualifying
\* symbols whose predicate holds at the tick's now (for the symbol's own
\* interval, unknown meaning never), one running session per symbol, all
\* started at that tick with the 60-second duration.
C8_SessionsAreExactlyTheEligible ==
  [][Fires =>
       /\ SessionSymbols(sessions') =
            IF InTriggerSecond(clock)
            THEN EligibleAt(funding_rates, cached_intervals, clock) ELSE {}
       /\ Cardinality(SessionSymbols(sessions')) = Len(sessions')
       /\ \A i \in 1..Len(sessions') :
            /\ sessions'[i].state = "running"
            /\ sessions'[i].started = clock
            /\ sessions'[i].duration = 60]_vars

\* What the code does at a firing tick: the same sessions, computed with
\* the interval the code looks up, the symbol's own or else the alias.
FiringUsesEffectiveInterval ==
  [][Fires =>
       /\ SessionSymbols(sessions') =
            {x \in Symbols :
               /\ \E r \in DictGet(funding_rates, x) : r < -3
               /\ InTriggerSecond(clock)
               /\ \E v \in IntervalFor(x) : v > 0 /\ ((HourOf(clock) + 1) % 24) % v = 0}
       /\ Cardinality(SessionSymbols(sessions')) = Len(sessions')
       /\ \A i \in 1..Len(sessions') :
            /\ sessions'[i].state = "running"
            /\ sessions'[i].started = clock
            /\ sessions'[i].duration = 60]_vars

\* C7: after a firing the predicate is not evaluated again in the same
\* wall-clock second, and no symbol is started twice in one second.
C7_NoReevaluationInFiredSecond ==
  /\ evals_in_fired_second <= 1
  /\ \A i, j \in 1..Len(fire_log) :
       (i < j /\ fire_log[i].symbol = fire_log[j].symbol) => fire_log[i].sec < fire_log[j].sec

\* C7 witness: the sessions of a firing ended early, and the scheduler has
\* evaluated again in the second right after the firing.
C7_Witness ==
  /\ fire_log # <<>>
  /\ sched_pc = "poll"
  /\ clock \div TicksPerSec = fire_log[1].sec + 1

\* C9: no symbol that qualifies, has a known interval and settles at the
\* next hour during a whole second hh:59:30 is left without a session
\* started in that second (sleeps resume at most MaxJitter ticks late).
C9_NoTriggerWindowMissed == missed = {}

\* C9 witness: a trigger second has passed in which a symbol eligible
\* throughout was given its session.
C9_Witness == served # {} /\ ~InTriggerSecond(clock)

(***************************************************************************)
(* Properties of the precision order loop (SpecOrder)                      *)
(***************************************************************************)

\* C12, as stated: every order's recorded send time is at or after its
\* target, and the coarse sleep of its iteration ended at or before the
\* instant 50 ms ahead of the target.
C12_SleepEndsBeforeMargin ==
  \A i \in 1..Len(o_sends) :
    /\ o_sends[i].send_time >= o_sends[i].target
    /\ \A w \in o_sends[i].woke : w <= o_sends[i].target - CoarseMarginMs

\* C12, amended: every order's recorded send time is at or after its
\* target; the coarse sleep is due 50 ms ahead of the target and ends at
\* that instant or later, never earlier, the busy-wait covering what is left.
C12_SendNotBeforeTarget ==
  /\ \A i \in 1..Len(o_sends) :
       /\ o_sends[i].send_time >= o_sends[i].target
       /\ \A w \in o_sends[i].woke :
            /\ w >= o_sends[i].target - CoarseMarginMs
            /\ w <= o_sends[i].send_time
  /\ o_pc = "sleep" => o_wake = o_target - CoarseMarginMs

\* C12 witness: an order sent after a coarse sleep that ended late but
\* ahead of the target, the busy-wait having run up to the target.
C12_Witness ==
  \E i \in 1..Len(o_sends) :
    /\ o_sends[i].send_time >= o_sends[i].target
    /\ \E w \in o_sends[i].woke :
         /\ w > o_sends[i].target - CoarseMarginMs
         /\ w < o_sends[i].target

\* C13: every result of _next_target_time is strictly later than the now it
\* was computed from, at most 24 hours later, has the target's time of day,
\* and is the earliest such instant (the same time a day earlier is not
\* after now).
C13_NextTargetIsEarliestAhead ==
  \A i \in 1..Len(o_targets) :
    LET now == o_targets[i].now
        t == o_targets[i].target
    IN  /\ t > now
        /\ t - now <= MsPerDay
        /\ t % MsPerDay = TargetOfDayMs
        /\ t - MsPerDay <= now

\* C13 witness: called exactly at the target's time of day, the function
\* returned the same time tomorrow; and called before it, today's target.
C13_Witness ==
  /\ Len(o_targets) = 2
  /\ o_targets[1].now < TargetOfDayMs
  /\ o_targets[1].target = TargetOfDayMs
  /\ o_targets[2].now = TargetOfDayMs
  /\ o_targets[2].target = TargetOfDayMs + MsPerDay

\* C14: no connection.new_order call is made for a target after the task
\* was cancelled in the coarse sleep or in the busy-wait of that target's
\* iteration.
C14_NoOrderAfterCancel ==
  /\ \A i \in 1..Len(o_sends) : ~o_sends[i].cancel_pending
  /\ "cancel_sleep" \in o_events =>
       \A i \in 1..Len(o_sends) : o_sends[i].target # o_target

\* C15: the i-th order is sent for the i-th computed target, once, and each
\* target computed after an order is the previous target plus one day.
C15_OncePerDailyOccurrence ==
  /\ Len(o_sends) <= Len(o_targets)
  /\ \A i \in 1..Len(o_sends) : o_sends[i].target = o_targets[i].target
  /\ \A i \in 1..(Len(o_targets) - 1) :
       o_targets[i + 1].target = o_targets[i].target + MsPerDay

\* C15 witness: without cancellation or error, two orders were sent, the
\* second for the day after the first.
C15_Witness ==
  /\ o_events = {}
  /\ Len(o_sends) = 2
  /\ o_sends[2].target = o_sends[1].target + MsPerDay
  /\ o_sends[2].send_time >= o_sends[2].target

\* C16: when new_order has returned (cancelled in a wait, or after a
\* failed order call) every listener it started has been stopped.
C16_ListenersStoppedAtExit ==
  o_pc = "done" => \A i \in 1..Len(o_listeners) : o_listeners[i] = "stopped"

\* C17: once the scheduler has ended by an exception, the funding-rate
\* connection and the stream connection of every session are closed, and
\* no session is still running.
C17_ShutdownClosesConnections ==
  sched_pc = "closed" =>
    /\ funding_conn # "open"
    /\ \A i \in 1..Len(sessions) :
         /\ sessions[i].conn # "open"
         /\ ~Running(i)

(***************************************************************************)
(* Properties of the funding-rate tracker (SpecTrack)                      *)
(***************************************************************************)

QualifiesNow(x) == \E r \in DictGet(funding_rates, x) : r < -3
PeriodicRefreshStep ==
  MinuteOf(clock) = 50 /\ _last_refresh_minute' # _last_refresh_minute

\* C18: a step submits a fetch for a symbol only at the periodic refresh, or
\* when the symbol did not qualify before the step, has no cached interval
\* and no fetch of it is outstanding.
C18_FetchOnlyWhenNewOrPeriodic ==
  [][\A x \in Symbols :
       CallTasks(fetches', x) > CallTasks(fetches, x) =>
         \/ PeriodicRefreshStep
         \/ /\ ~QualifiesNow(x)
            /\ cached_intervals[x] = None
            /\ TasksOf(fetches, x) = {}]_vars

\* C19: a step in which a fetch fails changes neither cached_intervals nor
\* cached_interval.
C19_FailedFetchKeepsCache ==
  [][(\E x \in Symbols : FetchFailsFor(x)) =>
       UNCHANGED <<cached_intervals, cached_interval>>]_vars

\* C19 witness: the refresh fetch of a symbol with a cached interval has
\* failed and the interval is still cached, for the symbol and as the alias.
C19_Witness ==
  \E f \in t_failed :
    /\ f.had # None
    /\ cached_intervals[f.symbol] = f.had
    /\ most_negative_symbol = f.symbol
    /\ cached_interval = f.had
    /\ TasksOf(fetches, f.symbol) = {}

\* C20: funding_rates holds, for every symbol, the rate of the last update
\* received for it; qualifying_symbols() is exactly the set of symbols whose
\* latest rate is below -0.003, each once; no key is ever removed.
C20_LatestRateWins ==
  /\ [](/\ \A x \in Symbols : DictGet(funding_rates, x) = latest[x]
        /\ SeqToSet(qualifying_symbols(funding_rates)) =
             {x \in Symbols : \E r \in latest[x] : r < -3}
        /\ Len(qualifying_symbols(funding_rates)) =
             Cardinality(SeqToSet(qualifying_symbols(funding_rates))))
  /\ [][SeqToSet(DictKeys(funding_rates)) \subseteq SeqToSet(DictKeys(funding_rates'))]_vars

\* C20 witness: a symbol that qualified (its interval was fetched) now has
\* a rate equal to the threshold and is not returned; the other one is.
C20_Witness ==
  /\ latest["A"] = Some(-3)
  /\ cached_intervals["A"] # None
  /\ latest["B"] = Some(-4)
  /\ qualifying_symbols(funding_rates) = <<"B">>

(***************************************************************************)
(* Properties of the analysis (SpecAnalyze)                                *)
(***************************************************************************)

LatenciesTaken == a_pc \in {"latencies", "max", "stats", "done"} /\ a_book # <<>>
StatsPrinted == a_pc \in {"stats", "done"} /\ a_book # <<>>
Swapped(q, i, j) == [q EXCEPT ![i] = q[j], ![j] = q[i]]

\* C21: the latency of every parsed record is its arrival timestamp (the
\* line's timestamp, in milliseconds) minus its event timestamp, negative
\* values included; this is the value the max-latency report and the bucket
\* table use, and processing the records in another order gives every record
\* the same latency.
C21_LatencyIsArrivalMinusEvent ==
  /\ LatenciesTaken =>
       /\ Len(a_latencies) = Len(a_book)
       /\ \A i \in 1..Len(a_book) :
            a_latencies[i] = timestamp_ms(a_book[i].readable_time) - a_book[i].E
       /\ \A i \in 1..Len(a_book) : \A j \in (i + 1)..Len(a_book) :
            Latencies(Swapped(a_book, i, j)) = Swapped(a_latencies, i, j)
  /\ (a_pc \in {"max", "stats", "done"} /\ a_max # None) =>
       LET i == TheValue(a_max).max_latency_idx IN
       TheValue(a_max).max_latency = timestamp_ms(a_book[i].readable_time) - a_book[i].E
  /\ StatsPrinted =>
       SumSeq([r \in 1..Len(a_table) |-> a_table[r].mean_l.num])
         = SumSeq([i \in 1..Len(a_book) |->
                     timestamp_ms(a_book[i].readable_time) - a_book[i].E])

\* A finished run with a record of negative latency, reported as the maximum.
C21_Witness ==
  /\ a_pc = "done" /\ a_max # None
  /\ TheValue(a_max).max_latency < 0
  /\ \E r \in 1..Len(a_table) : a_table[r].max_l < 0 /\ a_table[r].mean_l.num < 0

MaxReported == a_pc \in {"max", "stats", "done"}
\* The first index of S whose latency is the largest of S (a brute-force
\* scan of the whole list), as the pair the analysis reports; None for no index.
BruteForceMax(S) ==
  IF S = {} THEN None
  ELSE LET i == CHOOSE k \in S :
                  /\ \A j \in S : a_latencies[j] <= a_latencies[k]
                  /\ \A j \in S : j < k => a_latencies[j] < a_latencies[k]
       IN  Some([max_latency |-> a_latencies[i], max_latency_idx |-> i])

\* The records whose event time is in the plot window: from 0.3 s before to
\* 3 s after the first whole minute that is neither before the first record's
\* event time nor after the last one's; without such a minute, from the
\* first record's event time to the last one's.
InPlotWindow ==
  LET first == a_book[1].E
      last == a_book[Len(a_book)].E
      minute == ((first + MsPerMinute - 1) \div MsPerMinute) * MsPerMinute
      lo == IF minute <= last THEN minute - 300 ELSE first
      hi == IF minute <= last THEN minute + 3000 ELSE last
  IN  {i \in 1..Len(a_book) : lo <= a_book[i].E /\ a_book[i].E <= hi}

\* C22, as stated: the reported max-latency record is the first record of
\* largest latency among all parsed records.
C22_MaxOverAllRecords ==
  MaxReported => a_max = BruteForceMax(1..Len(a_book))

\* C22, amended: the reported max-latency record is the first record, in
\* file order, of largest latency among the parsed records whose event time
\* is in the plot window; none is reported when no record is in the window.
C22_MaxOverPlotWindow ==
  MaxReported => a_max = BruteForceMax(InPlotWindow)

\* A finished run where two records in the window tie for the largest
\* latency there and the first of them is the one reported.
C22_Witness ==
  /\ a_pc = "done" /\ a_max # None
  /\ \E j \in InPlotWindow :
       /\ j > TheValue(a_max).max_latency_idx
       /\ a_latencies[j] = TheValue(a_max).max_latency

\* The records of the bucket that starts at k, and their latencies.
RecordsOfBucket(k) ==
  {i \in 1..Len(a_book) : k <= a_book[i].E /\ a_book[i].E < k + BUCKET_MS}
\* The sum of the latencies of a set of records.
RECURSIVE SumOver(_)
SumOver(S) ==
  IF S = {} THEN 0
  ELSE LET i == CHOOSE k \in S : TRUE IN a_latencies[i] + SumOver(S \ {i})

\* C23: bucketing partitions the records. Every record is in exactly one row
\* of the table, the row whose key is floor(E / bucketWidth) * bucketWidth;
\* the counts sum to the number of records; every row's count, max and mean
\* are those of the latencies of exactly its records; the keys are in
\* increasing order; and compute_message_rate gives the same keys with the
\* same counts as the table of print_message_rate_stats.
C23_BucketsPartitionRecords ==
  /\ StatsPrinted =>
       /\ \A i \in 1..Len(a_book) :
            /\ Cardinality({r \in 1..Len(a_table) : i \in RecordsOfBucket(a_table[r].key)}) = 1
            /\ \E r \in 1..Len(a_table) :
                 /\ a_table[r].key % BUCKET_MS = 0
                 /\ a_table[r].key <= a_book[i].E
                 /\ a_book[i].E - a_table[r].key < BUCKET_MS
       /\ SumSeq([r \in 1..Len(a_table) |-> a_table[r].count]) = Len(a_book)
       /\ \A r \in 1..Len(a_table) :
            LET S == RecordsOfBucket(a_table[r].key) IN
            /\ a_table[r].count = Cardinality(S)
            /\ S # {}
            /\ \E i \in S : a_latencies[i] = a_table[r].max_l
            /\ \A i \in S : a_latencies[i] <= a_table[r].max_l
            /\ a_table[r].mean_l.num * Cardinality(S) = SumOver(S) * a_table[r].mean_l.den
       /\ \A r \in 1..(Len(a_table) - 1) : a_table[r].key < a_table[r + 1].key
  /\ (a_pc = "done" /\ a_rate # None) =>
       /\ TheValue(a_rate).keys = [r \in 1..Len(a_table) |-> a_table[r].key]
       /\ TheValue(a_rate).counts = [r \in 1..Len(a_table) |-> a_table[r].count]

\* A finished run with several buckets, one of several records of different
\* latencies, and event times that are not multiples of the bucket width.
C23_Witness ==
  /\ a_pc = "done" /\ a_rate # None
  /\ Len(a_table) >= 2
  /\ \E r \in 1..Len(a_table) :
       /\ a_table[r].count >= 2
       /\ a_table[r].max_l * a_table[r].mean_l.den > a_table[r].mean_l.num
       /\ \E i \in RecordsOfBucket(a_table[r].key) : a_book[i].E # a_table[r].key

\* The bucket means, as the table shows them.
RowMeans == [r \in 1..Len(a_table) |-> a_table[r].mean_l]
NumLess(x) == Cardinality({r \in 1..Len(a_table) : FracLess(RowMeans[r], x)})
NumGreater(x) == Cardinality({r \in 1..Len(a_table) : FracLess(x, RowMeans[r])})
\* The bucket mean with at most below means under it and at most above
\* means over it.
MeanRanked(below, above) ==
  RowMeans[CHOOSE r \in 1..Len(a_table) :
             NumLess(RowMeans[r]) <= below /\ NumGreater(RowMeans[r]) <= above]
\* mean > 1.2 * median of the bucket means: with an odd number of buckets the
\* median is the middle mean, with an even number the mean of the two
\* middle ones.
AboveBaseline(mean) ==
  LET n == Len(a_table) IN
  IF n % 2 = 1
  THEN LET med == MeanRanked((n - 1) \div 2, (n - 1) \div 2)
       IN  5 * mean.num * med.den > 6 * med.num * mean.den
  ELSE LET lower == MeanRanked(n \div 2 - 1, n \div 2)
           upper == MeanRanked(n \div 2, n \div 2 - 1)
       IN  5 * mean.num * lower.den * upper.den
             > 3 * (lower.num * upper.den + upper.num * lower.den) * mean.den
\* count > 2 * (records / buckets)
AboveMeanCount(count) == count * Len(a_table) > 2 * Len(a_book)

IsScenario ==
  /\ StatsPrinted
  /\ [r \in 1..Len(a_table) |-> a_table[r].count] = ScenarioCounts
  /\ \A r \in 1..Len(a_table) :
       a_table[r].mean_l.num = ScenarioMeans[r] * a_table[r].mean_l.den
\* n * n times the covariance of two series of integers.
SeriesCoMoment(x, y) ==
  Len(x) * SumSeq([i \in 1..Len(x) |-> x[i] * y[i]]) - SumSeq(x) * SumSeq(y)
C25_ScenarioStrongAndFlagged ==
  /\ (a_log = ScenarioLog /\ a_pc \in {"stats", "done"}) => IsScenario
  /\ IsScenario =>
       LET c == TheValue(a_corr)
           cov == SeriesCoMoment(ScenarioCounts, ScenarioMeans)
           vx == SeriesCoMoment(ScenarioCounts, ScenarioCounts)
           vy == SeriesCoMoment(ScenarioMeans, ScenarioMeans)
       IN  /\ ~c.nan /\ c.cov = cov /\ c.vx = vx /\ c.vy = vy
           \* corr = cov / sqrt(vx * vy) > 0.6
           /\ cov > 0 /\ vx > 0 /\ vy > 0
           /\ (cov * cov) \div 9 >= (vx * vy) \div 25 + 1
           /\ c.verdict = "strong"
           /\ a_table[4].flag = "HIGH-COUNT + HIGH-LAT"
           /\ \A r \in 1..Len(a_table) : r # 4 => a_table[r].flag = ""

\* The scenario's table has been printed.
C25_Witness == a_log = ScenarioLog /\ a_pc = "done" /\ IsScenario /\ Len(a_table) = 6

\* The well-formed book-ticker lines of the file, in file order.
WellFormed(line) ==
  line.kind = "stream" /\ HasRequiredKeys(line.params) /\ ConversionsSucceed(line)
WellFormedLines == SelectSeq(a_log, WellFormed)

\* C26: parse_logs never aborts on a line. Whatever the lines of the file
\* (stream lines or header lines without a required key, with a malformed
\* number or timestamp), the parse returns, and it returns every well-formed
\* book-ticker line of the file, in file order.
C26_ParseNeverAborts ==
  /\ a_pc # "raised"
  /\ a_pc \notin {"off", "start", "raised"} =>
       a_book = [i \in 1..Len(WellFormedLines) |-> BookEntry(WellFormedLines[i])]

(***************************************************************************)
(* Properties of the interval cache under concurrency (Spec, SpecTrack)    *)
(***************************************************************************)

\* The scheduler is at the head of its poll loop with its sleep over and at
\* least one symbol qualifies: its next step reads cached_interval (the
\* default of cached_intervals.get on main.py line 78).
SchedulerReadsAlias ==
  /\ \/ sched_pc \in {"poll", "post_sleep"}
     \/ sched_pc = "wait_data" /\ funding_rates # <<>>
  /\ clock >= wake
  /\ qualifying_symbols(funding_rates) # <<>>

\* C27: whenever the scheduler reads the legacy alias, cached_interval is
\* cached_intervals.get(most_negative_symbol), whatever the interleaving of
\* the worker thread with the handler and the scheduler.
C27_AliasInSyncWhenRead ==
  SchedulerReadsAlias => cached_interval = cached_intervals[most_negative_symbol]

(***************************************************************************)
(* Properties of the periodic refresh (SpecRefresh)                        *)
(***************************************************************************)

QualifiesAfter(x) == \E r \in DictGet(funding_rates', x) : r < -3
Submissions(x) == CallTasks(fetches', x) - CallTasks(fetches, x)
FirstMessageOfMinute50 ==
  MinuteOf(clock) = 50 /\ AbsHour(clock) \notin t_handled /\ t_handled' # t_handled
LaterInMinute50 == MinuteOf(clock) = 50 /\ AbsHour(clock) \in t_handled

\* C28: the first message handled in minute 50 of an hour submits exactly
\* one fetch for each symbol that qualifies once its rates are applied, and
\* a later step in that minute submits none for a symbol with a cached
\* interval.
C28_RefreshOncePerHour ==
  [][/\ FirstMessageOfMinute50 =>
          \A x \in Symbols : Submissions(x) = IF QualifiesAfter(x) THEN 1 ELSE 0
     /\ LaterInMinute50 =>
          \A x \in Symbols : cached_intervals[x] # None => Submissions(x) <= 0]_vars

(***************************************************************************)
(* Properties of the busy-wait of new_order (SpecOrder)                    *)
(***************************************************************************)

\* The instant at which the busy-wait of the order sent i-th began: the end
\* of the coarse sleep, or the head of the iteration when it was skipped.
SpinStart(i) ==
  IF o_sends[i].woke = None THEN o_targets[i].now ELSE TheValue(o_sends[i].woke)

\* C29: the busy-wait runs only within the last 50 ms before the target (or
\* after it): while new_order spins the clock is at most 50 ms short of the
\* target, and the busy-wait of every order sent began no earlier than
\* that, whether the coarse sleep ran or was skipped.
C29_SpinWithinMargin ==
  /\ o_pc = "spin" => o_clock >= o_target - CoarseMarginMs
  /\ \A i \in 1..Len(o_sends) : SpinStart(i) >= o_sends[i].target - CoarseMarginMs

\* C29 witness: an order was sent after a busy-wait entered without a
\* coarse sleep, and a later iteration spins ahead of its target after
\* its coarse sleep.
C29_Witness ==
  /\ Len(o_sends) = 1 /\ o_sends[1].woke = None
  /\ SpinStart(1) < o_sends[1].target
  /\ o_pc = "spin" /\ o_woke # None /\ o_clock < o_target

(***************************************************************************)
(* Properties of the capture sessions (SpecSessions)                       *)
(***************************************************************************)

ActiveSessions(x) == {i \in 1..Len(sessions) : sessions[i].symbol = x /\ Running(i)}
SessionsStart == fire_log' # fire_log

\* C30: no symbol has two running sessions; while a session runs the
\* scheduler is inside its gather; and a step that starts sessions finds
\* none running.
C30_OneSessionPerSymbol ==
  /\ [](\A x \in Symbols : Cardinality(ActiveSessions(x)) <= 1)
  /\ []((\E i \in 1..Len(sessions) : Running(i)) => sched_pc = "gather")
  /\ [][SessionsStart => \A i \in 1..Len(sessions) : ~Running(i)]_vars

\* C30 witness: two sessions were started by one tick, one has ended and
\* the scheduler still waits for the other.
C30_Witness ==
  /\ sched_pc = "gather"
  /\ \E i, j \in 1..Len(sessions) :
       /\ sessions[i].symbol # sessions[j].symbol
       /\ Running(i) /\ sessions[j].state = "ended"

(***************************************************************************)
(* Properties of the analysis launch (SpecLog)                             *)
(***************************************************************************)

LaunchExits == {"timeout", "connect_fail", "subscribe_fail", "unsub_fail"}
Flushed ==
  /\ l_stopmark > 0 /\ l_thread = "exited"
  /\ Len(l_file) >= l_stopmark
  /\ \A i \in 1..l_stopmark : l_file[i].msg = l_passed[i].msg

\* C31: the analysis subprocess is never launched twice; the step that
\* launches it finds the listener stopped and every record logged before
\* the stop on file; and a session that has returned by its timer, a failed
\* connection or subscription, or a failed unsubscribe has launched it once.
C31_AnalysisOnceAfterStop ==
  /\ [](l_popen <= 1)
  /\ []((l_pc = "returned" /\ l_events # {} /\ l_events \subseteq LaunchExits)
          => l_popen = 1)
  /\ [][l_popen' # l_popen => (Flushed /\ l_popen' = l_popen + 1)]_vars

\* C31 witness: a session that received stream messages ended by its timer,
\* its unsubscribe failed, and the analysis was launched once with the
\* messages on file.
C31_Witness ==
  /\ l_pc = "returned" /\ l_popen = 1
  /\ l_events = {"timeout", "unsub_fail"}
  /\ Cardinality(StreamLines) >= 1
  /\ Flushed

====
